---- MODULE Spec2Model ----
(***************************************************************************)
(* Collection loop of reddit_export.py: per-thread adaptive thresholds,    *)
(* fetch with retries, basic filters, pre-ranking, near-duplicate check,   *)
(* strict classification, acceptance, thread productivity and the update   *)
(* of the rejected-thread set.                                             *)
(*                                                                         *)
(* Scores are kept in tenths (6.0 is 60) and ratios in percent, so that    *)
(* every comparison of the source is an integer comparison; the pain score *)
(* of the strict classifier is kept as the float the source computes.      *)
(***************************************************************************)
EXTENDS Integers, Sequences, FiniteSets, TLC

(***************************************************************************)
(* Bounds of the model.                                                    *)
(***************************************************************************)
MaxThreads == 3
MaxComments == 1

(***************************************************************************)
(* Configuration of the source (lines 13-76, 990, 723, 969, 750).          *)
(***************************************************************************)
MIN_SENTENCES == 2
MIN_CHARS == 150
MAX_CHARS == 2000
SIMILARITY_THRESHOLD == 75
PRE_RANK_MIN_SCORE == 60
RANKED_COMMENT_SCAN_LIMIT == 220
STRICT_CLASSIFIER_MIN_SCORE == 60
ADAPTIVE_PRE_RANK_MIN_SCORE == 50
ADAPTIVE_CLASSIFIER_MIN_SCORE == 52
ADAPTIVE_RELAX_TRIGGER_PROGRESS == 55
ADAPTIVE_RELAX_MIN_COLLECTED_RATIO == 35
MAX_PER_THREAD == 10
DEDUP_WINDOW == 50
max_retries == 3
fetch_max_retries == 3


URLs == {"u1", "u2"}

Max(a, b) == IF a >= b THEN a ELSE b
Min(a, b) == IF a <= b THEN a ELSE b
Abs(n) == IF n < 0 THEN -n ELSE n

(***************************************************************************)
(* Python floats.  Every score of the strict classifier is a double that   *)
(* is a multiple of 2^-52 and below 128.  The double x is kept as the pair *)
(* <<t, d>> with 10 * x * 2^52 = t * 2^52 + d: t is x in tenths and d the  *)
(* binary representation error, in units of 2^-52 / 10.                    *)
(***************************************************************************)
RECURSIVE Pow2(_)
Pow2(n) == IF n = 0 THEN 1 ELSE 2 * Pow2(n - 1)

\* 2^n mod 10, for n >= 1.
Pow2Mod10(n) == CASE n % 4 = 0 -> 6 [] n % 4 = 1 -> 2 [] n % 4 = 2 -> 4 [] OTHER -> 8

\* The exponent of a value x >= 0: the largest j in 0..6 with x >= 2^j, or 0;
\* the doubles of that binade are the multiples of 2^(j-52).
Exponent(x) ==
    LET Reached(j) == x[1] > 10 * Pow2(j) \/ (x[1] = 10 * Pow2(j) /\ x[2] >= 0)
        S == {j \in 0..6 : Reached(j)}
    IN  IF S = {} THEN 0 ELSE CHOOSE j \in S : \A i \in S : i <= j

\* (t * 2^52 + d) mod (10 * 2^j), for t >= 0.
Residue(x, j) ==
    (Pow2(j) * (((x[1] % 10) * Pow2Mod10(52 - j)) % 10) + x[2]) % (10 * Pow2(j))

\* Round-half-even of an exact value x >= 0 to the multiples of 2^(j-52).
RoundToBinade(x, j) ==
    LET m == 10 * Pow2(j)
        r == Residue(x, j)
        odd == Residue(x, j + 1) >= m
    IN  IF 2 * r < m \/ (2 * r = m /\ ~odd)
        THEN <<x[1], x[2] - r>>
        ELSE <<x[1], x[2] - r + m>>

\* Round-half-even of an exact value x >= 0 to the doubles of its binade.
RoundPositive(x) == RoundToBinade(x, Exponent(x))

FNegative(x) == x[1] < 0 \/ (x[1] = 0 /\ x[2] < 0)
FNeg(x) == <<-x[1], -x[2]>>

\* The double nearest to the exact value x.
FRound(x) == IF FNegative(x) THEN FNeg(RoundPositive(FNeg(x))) ELSE RoundPositive(x)

\* The double written as a decimal literal with one decimal, given in tenths.
Double(tenths) == FRound(<<tenths, 0>>)

FAdd(x, y) == FRound(<<x[1] + y[1], x[2] + y[2]>>)
\* n * x for an int n.
FMul(n, x) == FRound(<<n * x[1], n * x[2]>>)
FLess(x, y) == x[1] < y[1] \/ (x[1] = y[1] /\ x[2] < y[2])
FMin(x, y) == IF FLess(y, x) THEN y ELSE x
\* round(x, 1), in tenths.
Round1(x) == x[1]

(***************************************************************************)
(* Strings and the regular expressions of the source.  A text is a TLA+    *)
(* string; a pattern is a tree of the nodes below, written next to the     *)
(* Python pattern it stands for.                                           *)
(***************************************************************************)
Char(s, p) == SubSeq(s, p, p)

LowerCase ==
    [c \in {"A", "B", "C", "D", "E", "F", "G", "H", "I", "J", "K", "L", "M", "N", "O", "P",
            "Q", "R", "S", "T", "U", "V", "W", "X", "Y", "Z"} |->
        CASE c = "A" -> "a" [] c = "B" -> "b" [] c = "C" -> "c" [] c = "D" -> "d"
          [] c = "E" -> "e" [] c = "F" -> "f" [] c = "G" -> "g" [] c = "H" -> "h"
          [] c = "I" -> "i" [] c = "J" -> "j" [] c = "K" -> "k" [] c = "L" -> "l"
          [] c = "M" -> "m" [] c = "N" -> "n" [] c = "O" -> "o" [] c = "P" -> "p"
          [] c = "Q" -> "q" [] c = "R" -> "r" [] c = "S" -> "s" [] c = "T" -> "t"
          [] c = "U" -> "u" [] c = "V" -> "v" [] c = "W" -> "w" [] c = "X" -> "x"
          [] c = "Y" -> "y" [] OTHER -> "z"]

Letters == {LowerCase[c] : c \in DOMAIN LowerCase}
Digits == {"0", "1", "2", "3", "4", "5", "6", "7", "8", "9"}
\* \w, \s and the characters "." does not match.
WordChars == Letters \cup DOMAIN LowerCase \cup Digits \cup {"_"}
\* [A-Za-z']
WordLetters == Letters \cup DOMAIN LowerCase \cup {"'"}
Spaces == {" ", "\n", "\t"}
Newlines == {"\n"}

\* str.lower()
RECURSIVE lower(_)
lower(s) ==
    IF Len(s) = 0 THEN ""
    ELSE IF Len(s) = 1 THEN (IF s \in DOMAIN LowerCase THEN LowerCase[s] ELSE s)
    ELSE LET half == Len(s) \div 2
         IN  lower(SubSeq(s, 1, half)) \o lower(SubSeq(s, half + 1, Len(s)))

\* lit occurs in s at position p.
At(s, p, lit) == p + Len(lit) - 1 <= Len(s) /\ SubSeq(s, p, p + Len(lit) - 1) = lit

\* "lit in s"
Contains(s, lit) == \E p \in 1..(Len(s) - Len(lit) + 1) : At(s, p, lit)

IsWordChar(s, p) == p >= 1 /\ p <= Len(s) /\ Char(s, p) \in WordChars

\* Pattern nodes.
Lit(x) == [kind |-> "lit", s |-> x]
\* (a|b|c) of literals
OneOf(xs) == [kind |-> "alt", of |-> [i \in DOMAIN xs |-> [kind |-> "lit", s |-> xs[i]]]]
Alt(rs) == [kind |-> "alt", of |-> rs]
Cat(rs) == [kind |-> "cat", of |-> rs]
Opt(r) == [kind |-> "opt", of |-> r]
\* between lo and hi characters of the class (hi = -1: no upper limit), as
\* many as possible; neg: the characters outside the class
Rep(class, neg, lo, hi) == [kind |-> "rep", class |-> class, neg |-> neg, lo |-> lo, hi |-> hi]
WB == [kind |-> "wb"]
Bol == [kind |-> "bol"]
\* \s+   \s   \s*   \S+   .{lo,hi}
Sp == Rep(Spaces, FALSE, 1, -1)
Sp1 == Rep(Spaces, FALSE, 1, 1)
Sp0 == Rep(Spaces, FALSE, 0, -1)
NonSp == Rep(Spaces, TRUE, 1, -1)
Dot(lo, hi) == Rep(Newlines, TRUE, lo, hi)
\* \b(a|b|c)\b
Word(xs) == Cat(<<WB, OneOf(xs), WB>>)

\* The number of characters of the class that follow position p of s, at
\* most hi of them.
Run(s, p, class, neg, hi) ==
    LET stop == {q \in p..(Len(s) + 1) : q = Len(s) + 1 \/ ((Char(s, q) \in class) = neg)}
        n == (CHOOSE q \in stop : \A o \in stop : q <= o) - p
    IN  IF hi >= 0 /\ n > hi THEN hi ELSE n

\* The backtracking matcher of re: the position after the match of the
\* patterns rs, one after the other, that starts at position p of s, and 0
\* when there is none.  Alternatives are tried in their order and
\* repetitions from the longest to the shortest.
RECURSIVE Match(_, _, _)
Match(rs, s, p) ==
    IF rs = <<>> THEN p
    ELSE LET r == Head(rs)
             rest == Tail(rs)
         IN  CASE r.kind = "lit" -> IF At(s, p, r.s) THEN Match(rest, s, p + Len(r.s)) ELSE 0
               [] r.kind = "wb" -> IF IsWordChar(s, p - 1) # IsWordChar(s, p) THEN Match(rest, s, p) ELSE 0
               [] r.kind = "bol" -> IF p = 1 THEN Match(rest, s, p) ELSE 0
               [] r.kind = "cat" -> Match(r.of \o rest, s, p)
               [] r.kind = "alt" ->
                    LET ok == {i \in DOMAIN r.of : Match(<<r.of[i]>> \o rest, s, p) # 0}
                    IN  IF ok = {} THEN 0
                        ELSE Match(<<r.of[CHOOSE i \in ok : \A j \in ok : i <= j]>> \o rest, s, p)
               [] r.kind = "opt" ->
                    LET with == Match(<<r.of>> \o rest, s, p)
                    IN  IF with # 0 THEN with ELSE Match(rest, s, p)
               [] r.kind = "rep" ->
                    LET n == Run(s, p, r.class, r.neg, r.hi)
                        ok == {i \in r.lo..n : Match(rest, s, p + i) # 0}
                    IN  IF ok = {} THEN 0
                        ELSE Match(rest, s, p + (CHOOSE i \in ok : \A j \in ok : j <= i))

\* The positions of s where a match of r starts.
Starts(r, s) == {p \in 1..(Len(s) + 1) : Match(<<r>>, s, p) # 0}

\* re.search(r, s) finds a match.
search(r, s) == Starts(r, s) # {}

\* any(re.search(pattern, s) for pattern in patterns)
search_any(patterns, s) == \E i \in DOMAIN patterns : search(patterns[i], s)

\* sum(1 for pattern in patterns if re.search(pattern, s))
hits(patterns, s) == Cardinality({i \in DOMAIN patterns : search(patterns[i], s)})

\* re.findall(r, s), as the sequence of <<start, end>> of the matches: the
\* leftmost match, then the leftmost one after its end.  (No pattern of the
\* source matches the empty string.)
RECURSIVE findall_from(_, _, _, _)
findall_from(r, s, starts, from) ==
    LET left == {p \in starts : p >= from}
    IN  IF left = {} THEN <<>>
        ELSE LET p == CHOOSE q \in left : \A o \in left : q <= o
                 e == Match(<<r>>, s, p)
             IN  <<(<<p, e>>)>> \o findall_from(r, s, starts, e)
findall(r, s) == findall_from(r, s, Starts(r, s), 1)

(***************************************************************************)
(* The patterns and word lists of the source.                              *)
(***************************************************************************)
\* [.!?]+
sentence_marks == Rep({".", "!", "?"}, FALSE, 1, -1)

\* [A-Za-z']+
word_pattern == Rep(WordLetters, FALSE, 1, -1)

nonsense_markers ==
    <<"throttle throttle", "that'll do pig", "pork chops and applesauce">>

HARD_SKIP_THREAD_KEYWORDS ==
    <<"promote your business", "weekly thread", "daily thread", "megathread", "open thread",
        "showcase", "introduce yourself", "ama", "ask me anything">>

hard_negative_moderator_notice_patterns ==
    <<
      \* \bplease report\b
      Cat(<<WB, Lit("please report"), WB>>),
      \* \bthis post will be removed\b
      Cat(<<WB, Lit("this post will be removed"), WB>>),
      \* \bif it looks like\b.{0,40}\bremoved\b
      Cat(<<WB, Lit("if it looks like"), WB, Dot(0, 40), WB, Lit("removed"), WB>>),
      \* \bmod(erator)? team\b
      Cat(<<WB, Lit("mod"), Opt(Lit("erator")), Lit(" team"), WB>>),
      \* \bthis thread\b.{0,30}\bspammers?\b
      Cat(<<WB, Lit("this thread"), WB, Dot(0, 30), WB, Lit("spammer"),
          Rep({"s"}, FALSE, 0, 1), WB>>)
    >>

service_pitch_patterns ==
    <<
      \* \bopen to a conversation\b
      Cat(<<WB, Lit("open to a conversation"), WB>>),
      \* \b(i|we)\s+(help|support|coach|consult)\b
      Cat(<<WB, OneOf(<<"i", "we">>), Sp, OneOf(<<"help", "support", "coach", "consult">>),
          WB>>),
      \* \bif you decide\b.{0,50}\b(i|we)\s+(step in|can help)\b
      Cat(<<WB, Lit("if you decide"), WB, Dot(0, 50), WB, OneOf(<<"i", "we">>), Sp,
          OneOf(<<"step in", "can help">>), WB>>),
      \* \bvisit\s+\S+\.\S+
      Cat(<<WB, Lit("visit"), Sp, NonSp, Lit("."), NonSp>>),
      \* \bdm me\b
      Cat(<<WB, Lit("dm me"), WB>>),
      \* \bcontact me\b
      Cat(<<WB, Lit("contact me"), WB>>)
    >>

\* \b(i|i'm|i[U+2019]ve|ive|i've|me|my|mine|we|our|us)\b: the texts of the model are ASCII,
\* so the alternative with the typographic apostrophe U+2019 never matches.
first_person_pattern ==
    Word(<<"i", "i'm", "ive", "i've", "me", "my", "mine", "we", "our", "us">>)

\* \b(you|your|you're|u)\b
second_person_pattern == Word(<<"you", "your", "you're", "u">>)

pain_terms ==
    <<"frustrated", "frustrating", "overwhelmed", "stressed", "stuck", "struggling", "can't",
        "cannot", "failed", "failing", "problem", "issue", "worried", "confused", "burned out",
        "burnout", "drowning", "killing us", "cash crunch">>

rank_impact_patterns ==
    <<
      \* (losing|lost|no|not enough)\s+(customers|clients|sales|revenue|money)
      Cat(<<OneOf(<<"losing", "lost", "no", "not enough">>), Sp, OneOf(<<"customers",
          "clients", "sales", "revenue", "money">>)>>),
      \* cash flow
      Lit("cash flow"),
      \* can't (afford|hire|scale|pay|keep up)
      Cat(<<Lit("can't "), OneOf(<<"afford", "hire", "scale", "pay", "keep up">>)>>),
      \* (payroll|rent|overhead|expenses|costs)\s+(is|are)\s+(too high|killing|out of control|eating)
      Cat(<<OneOf(<<"payroll", "rent", "overhead", "expenses", "costs">>), Sp, OneOf(<<"is",
          "are">>), Sp, OneOf(<<"too high", "killing", "out of control", "eating">>)>>),
      \* (employees|staff)\s+(quit|left|leaving|unreliable)
      Cat(<<OneOf(<<"employees", "staff">>), Sp, OneOf(<<"quit", "left", "leaving",
          "unreliable">>)>>),
      \* \bnet\s*(30|45|60|90)\b
      Cat(<<WB, Lit("net"), Sp0, OneOf(<<"30", "45", "60", "90">>), WB>>),
      \* \bout of pocket\b
      Cat(<<WB, Lit("out of pocket"), WB>>),
      \* \bfront(ing)?\s+(cash|costs|materials|labor)\b
      Cat(<<WB, Lit("front"), Opt(Lit("ing")), Sp, OneOf(<<"cash", "costs", "materials",
          "labor">>), WB>>),
      \* \b(accounts?\s+receivable|ar)\b
      Cat(<<WB, Alt(<<Cat(<<Lit("account"), Rep({"s"}, FALSE, 0, 1), Sp, Lit("receivable")>>),
          Lit("ar")>>), WB>>),
      \* \bline of credit\b
      Cat(<<WB, Lit("line of credit"), WB>>)
    >>

\* \b(i|we)\s+(tried|attempted|have tried|did)\b.{0,90}\b(but|however|still)\b
attempt_failed_pattern ==
    Cat(<<WB, OneOf(<<"i", "we">>), Sp, OneOf(<<"tried", "attempted", "have tried", "did">>),
        WB, Dot(0, 90), WB, OneOf(<<"but", "however", "still">>), WB>>)

\* \b(how do i|how can i|what should i do|need help|any advice)\b
help_request_pattern ==
    Word(<<"how do i", "how can i", "what should i do", "need help", "any advice">>)

advice_start_patterns ==
    <<
      \* ^you (should|need to|have to|must|can|could)\s
      Cat(<<Bol, Lit("you "), OneOf(<<"should", "need to", "have to", "must", "can",
          "could">>), Sp1>>),
      \* ^raise prices
      Cat(<<Bol, Lit("raise prices")>>),
      \* ^i recommend
      Cat(<<Bol, Lit("i recommend")>>),
      \* ^can you elaborate
      Cat(<<Bol, Lit("can you elaborate")>>),
      \* ^here('?s| is) what i do
      Cat(<<Bol, Lit("here"), Alt(<<Cat(<<Rep({"'"}, FALSE, 0, 1), Lit("s")>>), Lit(" is")>>),
          Lit(" what i do")>>),
      \* ^if i were you
      Cat(<<Bol, Lit("if i were you")>>)
    >>

success_tokens ==
    <<"success story", "just hit", "milestone", "celebrating", "congrats">>

\* https?://
url_pattern == Cat(<<Lit("http"), Rep({"s"}, FALSE, 0, 1), Lit("://")>>)

\* \b(visit|buy|subscribe|checkout|check out|link in bio)\b
promo_url_pattern ==
    Word(<<"visit", "buy", "subscribe", "checkout", "check out", "link in bio">>)

\* [a-z]{4,}
token_pattern == Rep(Letters, FALSE, 4, -1)

bot_phrases ==
    <<"i am a bot", "this action was performed automatically">>

promo_patterns ==
    <<
      \* portfolio.*dribbble
      Cat(<<Lit("portfolio"), Dot(0, -1), Lit("dribbble")>>),
      \* packages? start at \$
      Cat(<<Lit("package"), Rep({"s"}, FALSE, 0, 1), Lit(" start at $")>>),
      \* feel free to contact me at
      Lit("feel free to contact me at"),
      \* check out (my|our) (website|service|product)
      Cat(<<Lit("check out "), OneOf(<<"my", "our">>), Lit(" "), OneOf(<<"website", "service",
          "product">>)>>),
      \* \.myshopify\.com
      Lit(".myshopify.com"),
      \* \bbuy now\b
      Cat(<<WB, Lit("buy now"), WB>>),
      \* \bsubscribe\b
      Cat(<<WB, Lit("subscribe"), WB>>),
      \* \bvisit\s+\S+\.\S+
      Cat(<<WB, Lit("visit"), Sp, NonSp, Lit("."), NonSp>>),
      \* \bdm me\b
      Cat(<<WB, Lit("dm me"), WB>>),
      \* \bcontact me\b
      Cat(<<WB, Lit("contact me"), WB>>)
    >>

moderator_notice_patterns ==
    <<
      \* \bplease report\b
      Cat(<<WB, Lit("please report"), WB>>),
      \* \bpost\b.{0,40}\bremoved\b
      Cat(<<WB, Lit("post"), WB, Dot(0, 40), WB, Lit("removed"), WB>>),
      \* \bspammers?\b
      Cat(<<WB, Lit("spammer"), Rep({"s"}, FALSE, 0, 1), WB>>),
      \* \bthis thread\b.{0,40}\bpromotion\b
      Cat(<<WB, Lit("this thread"), WB, Dot(0, 40), WB, Lit("promotion"), WB>>)
    >>

\* \b(he|she|they|my friend|my client|my cousin)\b
third_person_pattern == Word(<<"he", "she", "they", "my friend", "my client", "my cousin">>)

own_context_patterns ==
    <<
      \* \bmy\s+(business|company|shop|practice|store|agency)\b
      Cat(<<WB, Lit("my"), Sp, OneOf(<<"business", "company", "shop", "practice", "store",
          "agency">>), WB>>),
      \* \b(i|we)\s+(run|own|manage|operate)\b
      Cat(<<WB, OneOf(<<"i", "we">>), Sp, OneOf(<<"run", "own", "manage", "operate">>), WB>>)
    >>

\* \b(business|company|shop|practice|store|agency|client|customer|revenue|sales|cash flow|payroll|invoice|supplier|vendor|employee|staff|profit|margin)\b
business_context_pattern ==
    Word(<<"business", "company", "shop", "practice", "store", "agency", "client", "customer",
        "revenue", "sales", "cash flow", "payroll", "invoice", "supplier", "vendor",
        "employee", "staff", "profit", "margin">>)

first_person_pain_patterns ==
    <<
      \* \bi\s+(can't|cannot|couldn't|am unable to|don't know how to)\b
      Cat(<<WB, Lit("i"), Sp, OneOf(<<"can't", "cannot", "couldn't", "am unable to",
          "don't know how to">>), WB>>),
      \* \b(i'm|i am|we are)\s+(stuck|frustrated|overwhelmed|stressed|worried|exhausted|burned out)\b
      Cat(<<WB, OneOf(<<"i'm", "i am", "we are">>), Sp, OneOf(<<"stuck", "frustrated",
          "overwhelmed", "stressed", "worried", "exhausted", "burned out">>), WB>>),
      \* \b(i|we)\s+(need|want|wish)\s+(help|advice|to fix|to solve|to figure out)\b
      Cat(<<WB, OneOf(<<"i", "we">>), Sp, OneOf(<<"need", "want", "wish">>), Sp,
          OneOf(<<"help", "advice", "to fix", "to solve", "to figure out">>), WB>>),
      \* \b(i|we)\s+(regret|hate)\b
      Cat(<<WB, OneOf(<<"i", "we">>), Sp, OneOf(<<"regret", "hate">>), WB>>),
      \* \b(i|we)\s+(have to|had to)\s+front\b
      Cat(<<WB, OneOf(<<"i", "we">>), Sp, OneOf(<<"have to", "had to">>), Sp, Lit("front"),
          WB>>),
      \* \b(i|we)\s+(keep|still)\s+(losing|fighting|dealing with)\b
      Cat(<<WB, OneOf(<<"i", "we">>), Sp, OneOf(<<"keep", "still">>), Sp, OneOf(<<"losing",
          "fighting", "dealing with">>), WB>>)
    >>

impact_patterns ==
    <<
      \* cash flow
      Lit("cash flow"),
      \* (losing|lost|no|not enough)\s+(customers|clients|sales|revenue|money)
      Cat(<<OneOf(<<"losing", "lost", "no", "not enough">>), Sp, OneOf(<<"customers",
          "clients", "sales", "revenue", "money">>)>>),
      \* can't (afford|hire|scale|pay|keep up)
      Cat(<<Lit("can't "), OneOf(<<"afford", "hire", "scale", "pay", "keep up">>)>>),
      \* (payroll|rent|overhead|expenses|costs)\s+(is|are)\s+(killing|too high|eating|out of control)
      Cat(<<OneOf(<<"payroll", "rent", "overhead", "expenses", "costs">>), Sp, OneOf(<<"is",
          "are">>), Sp, OneOf(<<"killing", "too high", "eating", "out of control">>)>>),
      \* (employees|staff)\s+(quit|left|leaving|unreliable)
      Cat(<<OneOf(<<"employees", "staff">>), Sp, OneOf(<<"quit", "left", "leaving",
          "unreliable">>)>>),
      \* bad reviews|chargebacks|refunds
      OneOf(<<"bad reviews", "chargebacks", "refunds">>),
      \* \bnet\s*(30|45|60|90)\b
      Cat(<<WB, Lit("net"), Sp0, OneOf(<<"30", "45", "60", "90">>), WB>>),
      \* \bout of pocket\b
      Cat(<<WB, Lit("out of pocket"), WB>>),
      \* \bfront(ing)?\s+(cash|costs|materials|labor)\b
      Cat(<<WB, Lit("front"), Opt(Lit("ing")), Sp, OneOf(<<"cash", "costs", "materials",
          "labor">>), WB>>),
      \* \b(accounts?\s+receivable|ar)\b
      Cat(<<WB, Alt(<<Cat(<<Lit("account"), Rep({"s"}, FALSE, 0, 1), Sp, Lit("receivable")>>),
          Lit("ar")>>), WB>>),
      \* \bline of credit\b
      Cat(<<WB, Lit("line of credit"), WB>>)
    >>

unresolved_patterns ==
    <<
      \* \b(i|we)\b.{0,24}\b(still|yet|again|ongoing|keep)\b
      Cat(<<WB, OneOf(<<"i", "we">>), WB, Dot(0, 24), WB, OneOf(<<"still", "yet", "again",
          "ongoing", "keep">>), WB>>),
      \* \b(i|we)\b.{0,30}\b(didn't work|not working|can't|cannot|stuck|struggling|drowning)\b
      Cat(<<WB, OneOf(<<"i", "we">>), WB, Dot(0, 30), WB, OneOf(<<"didn't work", "not working",
          "can't", "cannot", "stuck", "struggling", "drowning">>), WB>>),
      \* \b(how do i|how can i|what should i do|any advice|does anyone know)\b
      Word(<<"how do i", "how can i", "what should i do", "any advice", "does anyone know">>)
    >>

help_patterns ==
    <<
      \* \bhow do i\b|\bhow can i\b|\bwhat should i do\b
      Alt(<<Cat(<<WB, Lit("how do i"), WB>>), Cat(<<WB, Lit("how can i"), WB>>), Cat(<<WB,
          Lit("what should i do"), WB>>)>>),
      \* \bany advice\b|\bany tips\b|\bdoes anyone know\b
      Alt(<<Cat(<<WB, Lit("any advice"), WB>>), Cat(<<WB, Lit("any tips"), WB>>), Cat(<<WB,
          Lit("does anyone know"), WB>>)>>)
    >>

advice_phrases ==
    <<
      \* \byou should\b
      Cat(<<WB, Lit("you should"), WB>>),
      \* \byou could\b
      Cat(<<WB, Lit("you could"), WB>>),
      \* \bi recommend\b
      Cat(<<WB, Lit("i recommend"), WB>>),
      \* \byou need to\b
      Cat(<<WB, Lit("you need to"), WB>>),
      \* \bif i were you\b
      Cat(<<WB, Lit("if i were you"), WB>>)
    >>

success_phrases ==
    <<"best decision i ever made", "worked great for me", "all good now">>

\* \b(can't|cannot|stuck|struggling)\b
needs_resolution_pattern == Word(<<"can't", "cannot", "stuck", "struggling">>)

category_patterns ==
    <<
      \* \b(cash flow|payroll|overhead|expenses|margins?|revenue|profit|pricing|invoice|net\s*(30|45|60|90)|accounts?\s+receivable|line of credit)\b
      Cat(<<WB, Alt(<<Lit("cash flow"), Lit("payroll"), Lit("overhead"), Lit("expenses"),
          Cat(<<Lit("margin"), Rep({"s"}, FALSE, 0, 1)>>), Lit("revenue"), Lit("profit"),
          Lit("pricing"), Lit("invoice"), Cat(<<Lit("net"), Sp0, OneOf(<<"30", "45", "60",
          "90">>)>>), Cat(<<Lit("account"), Rep({"s"}, FALSE, 0, 1), Sp, Lit("receivable")>>),
          Lit("line of credit")>>), WB>>),
      \* \b(hire|hiring|employee|staff|team|turnover|quit|recruit)\b
      Word(<<"hire", "hiring", "employee", "staff", "team", "turnover", "quit", "recruit">>),
      \* \b(systems?|process|workflow|manual|operations?|sop|accounting setup)\b
      Cat(<<WB, Alt(<<Cat(<<Lit("system"), Rep({"s"}, FALSE, 0, 1)>>), Lit("process"),
          Lit("workflow"), Lit("manual"), Cat(<<Lit("operation"), Rep({"s"}, FALSE, 0, 1)>>),
          Lit("sop"), Lit("accounting setup")>>), WB>>),
      \* \b(marketing|ads?|leads?|seo|campaign|subscribers?|conversion)\b
      Cat(<<WB, Alt(<<Lit("marketing"), Cat(<<Lit("ad"), Rep({"s"}, FALSE, 0, 1)>>),
          Cat(<<Lit("lead"), Rep({"s"}, FALSE, 0, 1)>>), Lit("seo"), Lit("campaign"),
          Cat(<<Lit("subscriber"), Rep({"s"}, FALSE, 0, 1)>>), Lit("conversion")>>), WB>>),
      \* \b(tax|irs|legal|lawyer|lawsuit|compliance|contract)\b
      Word(<<"tax", "irs", "legal", "lawyer", "lawsuit", "compliance", "contract">>),
      \* \b(exhausted|burned out|burnout|overwhelmed|stressed)\b
      Word(<<"exhausted", "burned out", "burnout", "overwhelmed", "stressed">>),
      \* \b(customer|client|refund|chargeback|review)\b
      Word(<<"customer", "client", "refund", "chargeback", "review">>)
    >>

\* http[s]?://\S+
http_url_pattern == Cat(<<Lit("http"), Rep({"s"}, FALSE, 0, 1), Lit("://"), NonSp>>)

(***************************************************************************)
(* Text helpers.                                                           *)
(***************************************************************************)
\* str.strip()
strip(s) ==
    LET keep == {p \in 1..Len(s) : Char(s, p) \notin Spaces}
    IN  IF keep = {} THEN ""
        ELSE SubSeq(s, CHOOSE p \in keep : \A q \in keep : p <= q,
                       CHOOSE p \in keep : \A q \in keep : q <= p)

\* re.split(r, s): the pieces of s between the matches of r.
\* The pieces of s between the matches m, each a <<start, end>>.
between(m, s) ==
    [i \in 1..(Len(m) + 1) |->
        SubSeq(s, IF i = 1 THEN 1 ELSE m[i - 1][2],
                  (IF i = Len(m) + 1 THEN Len(s) + 1 ELSE m[i][1]) - 1)]

split(r, s) == between(findall(r, s), s)

\* [x.strip() for x in pieces if x.strip()]
stripped(pieces) == SelectSeq([i \in DOMAIN pieces |-> strip(pieces[i])], LAMBDA x : x # "")

\* len(re.findall(r"[.!?]+", text))
count_sentence_marks(text) == Len(findall(sentence_marks, text))

get_sentences(text) == stripped(split(sentence_marks, text))

\* text.splitlines(), for the line break of the model's texts
splitlines(text) == split(Lit("\n"), text)

\* set(re.findall(r, s))
matched(m, s) == {SubSeq(s, m[i][1], m[i][2] - 1) : i \in DOMAIN m}
found(r, s) == matched(findall(r, s), s)

\* sum(1 for x in xs if x in s)
contained(xs, s) == Cardinality({i \in DOMAIN xs : Contains(s, xs[i])})

(***************************************************************************)
(* What the filters and scorers read from a text: the result of each       *)
(* search, count and split they make on it, under the name the source      *)
(* gives it.  raw is "text" for an ordinary body and the body itself when  *)
(* it is empty or a placeholder.                                           *)
(***************************************************************************)
ReadingOf(text, text_lower, sentences, first_sentence, words, lines) ==
        [raw |-> IF text \in {"", "[deleted]", "[removed]"} THEN text ELSE "text",
         chars |-> Len(text),
         sentence_marks |-> count_sentence_marks(text),
         \* low_quality_text_reason
         sentences |-> Len(sentences),
         words |-> Len(words),
         sentence_word_counts |->
             [i \in DOMAIN sentences |-> Len(findall(word_pattern, sentences[i]))],
         line_word_counts |-> [i \in DOMAIN lines |-> Len(findall(word_pattern, lines[i]))],
         unique_words |->
             Cardinality({lower(SubSeq(text, words[i][1], words[i][2] - 1)) : i \in DOMAIN words}),
         nonsense |-> contained(nonsense_markers, text_lower) > 0,
         \* is_hard_negative_comment
         hard_negative_moderator_notice |->
             search_any(hard_negative_moderator_notice_patterns, text_lower),
         service_pitch |-> search_any(service_pitch_patterns, text_lower),
         \* rank_comment_pain_potential (first_person_hits, second_person_hits) and
         \* is_substantive_pain_expression (first_person_count, second_person_count)
         first_person_count |-> Len(findall(first_person_pattern, text_lower)),
         second_person_count |-> Len(findall(second_person_pattern, text_lower)),
         pain_term_hits |-> contained(pain_terms, text_lower),
         rank_impact_hits |-> hits(rank_impact_patterns, text_lower),
         attempt_failed |-> search(attempt_failed_pattern, text_lower),
         help_request |-> search(help_request_pattern, text_lower),
         advice_start |-> search_any(advice_start_patterns, first_sentence),
         success_tokens |-> contained(success_tokens, text_lower) > 0,
         url |-> search(url_pattern, text_lower),
         promo_url |-> search(promo_url_pattern, text_lower),
         text_tokens |-> found(token_pattern, text_lower),
         \* is_substantive_pain_expression
         bot |-> contained(bot_phrases, text_lower) > 0,
         promo |-> search_any(promo_patterns, text_lower),
         moderator_notice |-> search_any(moderator_notice_patterns, text_lower),
         third_person |-> search(third_person_pattern, text_lower),
         own_context_hits |-> hits(own_context_patterns, text_lower),
         business_context |-> search(business_context_pattern, text_lower),
         fp_pain_hits |-> hits(first_person_pain_patterns, text_lower),
         impact_hits |-> hits(impact_patterns, text_lower),
         unresolved_hits |-> hits(unresolved_patterns, text_lower),
         help_hits |-> hits(help_patterns, text_lower),
         advice_hits |-> hits(advice_phrases, text_lower),
         success_phrases |-> contained(success_phrases, text_lower) > 0,
         needs_resolution_words |-> search(needs_resolution_pattern, text_lower),
         category_matches |->
             {i \in DOMAIN category_patterns : search(category_patterns[i], text_lower)}]

\* sentences[0].lower() if sentences else ""
first_of(sentences) == IF sentences = <<>> THEN "" ELSE lower(sentences[1])

Reading(text) ==
    ReadingOf(text, lower(text), get_sentences(text), first_of(get_sentences(text)),
              findall(word_pattern, text), stripped(splitlines(text)))

\* What the functions read from a thread title.
title_hard_skip(thread_title) == contained(HARD_SKIP_THREAD_KEYWORDS, lower(thread_title)) > 0
title_tokens(thread_title) == found(token_pattern, lower(thread_title))


(***************************************************************************)
(* Comment bodies.  A body is the reading of its text, with txt, its words *)
(* as the near-duplicate check compares them (0 stands for a URL, -n for   *)
(* the word n written with capitals).                                      *)
(***************************************************************************)
\* Passes every filter; cash_flow_finance.
TextA ==
    "I run a small bakery and the cash flow is bad this year. I can't pay the flour bill on time and the bank will not wait for long. It has been this way since the spring and the summer was slow."
\* Below the strict pre-rank and classifier minimum, above the relaxed ones.
TextB ==
    "I am stuck with my shop and the team at the moment. We talk about the rota every single week and the people come in late the next day. It goes on like this month after month and nothing changes for us at all."
\* Ranked, then turned down by the classifier: no own-experience context.
TextR ==
    "The rent went up and the costs are too high for a place of this size. It is a problem that gets worse every quarter and a very frustrating one. The landlord does not answer the phone and nobody has a plan."
\* TextR with one sentence more: the same pre-rank score and verdict.
TextRLong ==
    "The rent went up and the costs are too high for a place of this size. It is a problem that gets worse every quarter and a very frustrating one. The landlord does not answer the phone and nobody has a plan. Nobody knows what comes next."
\* TextA with capitals and a link.
TextD ==
    "I RUN a small bakery and the cash flow is bad this year. I can't pay the flour bill on time and the bank will not wait for long. It has been this way since the spring and the summer was slow. https://example.com/bakery"
\* Passes every filter; staffing.
TextE ==
    "I run a garage and my staff quit without notice last month. I can't find a mechanic who stays longer than a season in this town. The work piles up in the yard and the phone keeps ringing all day."
\* Below the relaxed pre-rank minimum.
TextLow ==
    "My shop has a team of four and I can't get them to agree on the opening hours. One wants the early shift and another one wants the late shift and the rest want weekends off. It has been like that for years."
\* Fewer than MIN_CHARS characters.
TextShort ==
    "I run a garage and my staff quit last month. I can't find a mechanic who stays in this town."
\* A single sentence.
TextOne ==
    "I run a garage and my staff quit without notice last month and I can't find a mechanic who stays longer than a season in this town and the work piles up in the yard and the phone keeps ringing all day."
\* A service pitch.
TextPitch ==
    "I run a garage and my staff quit without notice last month. I can't find a mechanic who stays longer than a season in this town. We help other owners with the same trouble and the first call is free."
\* Holds a nonsense marker.
TextSalad ==
    "I run a garage and my staff quit without notice last month. I can't find a mechanic who stays longer than a season in this town. Pork chops and applesauce is all that the last one said to me when he left."
\* Twelve texts that pass every filter with three different pre-rank scores;
\* general_business_pain.
TextBig(n) ==
    "I run the market stall " \o Char("abcdefghijkl", n)
        \o " with my brother. I can't keep the place warm and dry in the winter months and the roof leaks. "
        \o (CASE n % 3 = 0 -> "I am stuck and there is nothing left that could be sold."
              [] n % 3 = 1 -> "How do I get through the winter with what is left in the till."
              [] OTHER -> "I am stuck. How do I get through the winter? See http://example.org/stall")

\* The texts of the comments of the model's threads, and their readings.
BodyTexts ==
    {TextA, TextB, TextR, TextRLong, TextD, TextE, TextLow, TextShort, TextOne, TextPitch, TextSalad,
     "[deleted]"} \cup {TextBig(n) : n \in 1..(MAX_PER_THREAD + 2)}

BodyReadings == [text \in BodyTexts |-> Reading(text)]

Body(text, t) == [txt |-> t] @@ BodyReadings[text]

BodyA == Body(TextA, <<1, 2, 3, 4>>)
BodyB == Body(TextB, <<5>>)
BodyR == Body(TextR, <<6>>)
BodyRLong == Body(TextRLong, <<6, 5>>)
BodyD == Body(TextD, <<1, -2, 0, 3, 9>>)
BodyE == Body(TextE, <<7, 8>>)
BodyLow == Body(TextLow, <<6, 7>>)
BodyShort == Body(TextShort, <<8>>)
BodyOne == Body(TextOne, <<9>>)
BodyPitch == Body(TextPitch, <<4, 4>>)
BodySalad == Body(TextSalad, <<3, 3>>)
BodyDeleted == Body("[deleted]", <<>>)
BodyBig(n) == Body(TextBig(n), <<10 + n>>)

\* A comment of the thread JSON: the fields the program reads.
Comment(i, b, up) ==
    [id |-> i, body |-> b, score |-> up, author |-> "someone", distinguished |-> "",
     stickied |-> FALSE]

ca == Comment(1, BodyA, 5)
cb == Comment(2, BodyB, 3)
cr == Comment(3, BodyR, 9)
cd == Comment(4, BodyD, 1)
ce == Comment(1, BodyE, 2)

\* The comments a short thread is made of.
Universe == {ca, cr}

RECURSIVE SeqsUpTo(_, _)
SeqsUpTo(S, n) ==
    IF n = 0 THEN {<<>>}
    ELSE LET shorter == SeqsUpTo(S, n - 1)
         IN  shorter \cup {Append(s, x) : s \in {t \in shorter : Len(t) = n - 1}, x \in S}

\* A thread with more acceptable comments than the per-thread cap.
BigThread == [k \in 1..(MAX_PER_THREAD + 2) |-> Comment(10 + k, BodyBig(k), k % 2)]

\* A thread whose comments are stopped by each of the filters before ranking.
FilterThread ==
    <<Comment(5, BodyShort, 1), Comment(6, BodyOne, 1), Comment(7, BodyPitch, 1),
      [Comment(8, BodyE, 1) EXCEPT !.distinguished = "moderator"], Comment(9, BodySalad, 1),
      Comment(10, BodyLow, 1), Comment(0, BodyDeleted, 1)>>

\* A thread with one ranked candidate more than the scan limit, every one of
\* them turned down by the classifier; three upvote scores and two body
\* lengths among them.
ScanThread ==
    [n \in 1..(RANKED_COMMENT_SCAN_LIMIT + 1) |->
        Comment(30 + n, IF n % 2 = 0 THEN BodyR ELSE BodyRLong, n % 3)]

\* What fetch_thread can return for a thread, the flattened comment list:
\* a site of short threads, a site with a thread longer than the per-thread
\* cap, and a site of threads with filtered, near-duplicate and repeated-id
\* comments.
ShortThreads == SeqsUpTo(Universe, MaxComments) \cup {<<cb>>}
LongThreads == {BigThread}
OddThreads == {FilterThread, <<ca, cd>>, <<ca, ce>>}

\* TARGET_COMMENTS = 50 * NUM_STUDENTS is edited by the user.  The runs tried:
\* a target of 0, 1 or 2 on the short threads, a target above the per-thread
\* cap on the long one, a target of 3 on the odd ones, a target of 1 on the
\* thread longer than the scan limit.
Scenarios ==
    ({0, 1, 2} \X {ShortThreads})
        \cup {<<MAX_PER_THREAD + 2, LongThreads>>, <<3, OddThreads>>, <<1, {ScanThread}>>}

\* The thread lists tried: u1 is the url of the first thread, u2 another url,
\* which the rejected-thread set loaded at the start of the run holds or not.
ThreadLists == {s \in SeqsUpTo(URLs, MaxThreads) : s = <<>> \/ s[1] = "u1"}

\* The thread longer than the scan limit is tried in runs of one thread.
ListsOf(threads) ==
    IF threads = {ScanThread} THEN {s \in ThreadLists : Len(s) <= 1} ELSE ThreadLists

(***************************************************************************)
(* Near-duplicate check, on the words of a body.                           *)
(***************************************************************************)
\* normalize_text: URLs are removed and the text is lower-cased.
normalize_text(text) ==
    LET lowered == [i \in DOMAIN text |-> Abs(text[i])]
    IN  SelectSeq(lowered, LAMBDA w : w # 0)

\* The longest common block of a and b as <<i, j, k>>: the longest, then the
\* earliest in a, then the earliest in b (find_longest_match of difflib).
LongestMatch(a, b) ==
    LET Blocks == {m \in (1..Len(a)) \X (1..Len(b)) \X (1..Min(Len(a), Len(b))) :
                      /\ m[1] + m[3] - 1 <= Len(a)
                      /\ m[2] + m[3] - 1 <= Len(b)
                      /\ \A d \in 0..(m[3] - 1) : a[m[1] + d] = b[m[2] + d]}
        Better(m, n) == \/ m[3] > n[3]
                        \/ m[3] = n[3] /\ m[1] < n[1]
                        \/ m[3] = n[3] /\ m[1] = n[1] /\ m[2] <= n[2]
    IN  IF Blocks = {} THEN <<1, 1, 0>>
        ELSE CHOOSE m \in Blocks : \A n \in Blocks : Better(m, n)

\* Number of matched elements of SequenceMatcher.get_matching_blocks.
RECURSIVE Matches(_, _)
Matches(a, b) ==
    IF Len(a) = 0 \/ Len(b) = 0 THEN 0
    ELSE LET m == LongestMatch(a, b)
         IN  IF m[3] = 0 THEN 0
             ELSE m[3]
                  + Matches(SubSeq(a, 1, m[1] - 1), SubSeq(b, 1, m[2] - 1))
                  + Matches(SubSeq(a, m[1] + m[3], Len(a)), SubSeq(b, m[2] + m[3], Len(b)))

\* SequenceMatcher.ratio() >= SIMILARITY_THRESHOLD, on the normalized texts:
\* ratio is 2*M/T, and 1.0 when both texts are empty.
SimilarEnough(text1, text2) ==
    LET a == normalize_text(text1)
        b == normalize_text(text2)
        T == Len(a) + Len(b)
    IN  IF T = 0 THEN TRUE
        ELSE 200 * Matches(a, b) >= SIMILARITY_THRESHOLD * T

is_too_similar(new_text, existing_texts) ==
    LET n == Len(existing_texts)
        recent_texts == IF n > DEDUP_WINDOW
                        THEN SubSeq(existing_texts, n - DEDUP_WINDOW + 1, n)
                        ELSE existing_texts
    IN  \E i \in DOMAIN recent_texts : SimilarEnough(new_text, recent_texts[i])

(***************************************************************************)
(* Filters and scorers, on the reading of a body.                          *)
(***************************************************************************)
sentence_count(body) == body.sentence_marks

\* The number of elements of counts that are at most 4.
short_ones(counts) == Cardinality({i \in DOMAIN counts : counts[i] <= 4})

low_quality_text_reason(body) ==
    IF body.sentences = 0 \/ body.words = 0 THEN "No meaningful content"
    ELSE IF /\ body.sentences >= 10
            /\ 2 * short_ones(body.sentence_word_counts) >= Max(Len(body.sentence_word_counts), 1)
    THEN "Low coherence (too many short fragments)"
    ELSE IF /\ Len(body.line_word_counts) >= 8
            /\ 2 * short_ones(body.line_word_counts) >= Len(body.line_word_counts)
    THEN "Low coherence (fragmented lines)"
    ELSE IF body.words >= 140 /\ 100 * body.unique_words <= 28 * Max(body.words, 1)
    THEN "Low lexical diversity"
    ELSE IF body.nonsense THEN "Low coherence (nonsense markers)"
    ELSE ""

\* is_hard_negative_comment comparing the author name as it is written.
is_hard_negative_comment_exact_author(comment, body, thread_title) ==
    IF title_hard_skip(thread_title) THEN <<TRUE, "Meta/promo thread">>
    ELSE IF lower(comment.distinguished) \in {"moderator", "admin"}
    THEN <<TRUE, "Moderator/admin comment">>
    ELSE IF comment.author = "automoderator" THEN <<TRUE, "AutoModerator comment">>
    ELSE IF comment.stickied THEN <<TRUE, "Stickied moderator comment">>
    ELSE IF body.hard_negative_moderator_notice THEN <<TRUE, "Moderator notice">>
    ELSE IF body.service_pitch THEN <<TRUE, "Service pitch/self-promo">>
    ELSE <<FALSE, "">>

\* is_hard_negative_comment with the sticky flag tested before the
\* distinguished mark and the author.
is_hard_negative_comment_sticky_first(comment, body, thread_title) ==
    IF title_hard_skip(thread_title) THEN <<TRUE, "Meta/promo thread">>
    ELSE IF comment.stickied THEN <<TRUE, "Stickied moderator comment">>
    ELSE IF lower(comment.distinguished) \in {"moderator", "admin"}
    THEN <<TRUE, "Moderator/admin comment">>
    ELSE IF lower(comment.author) = "automoderator" THEN <<TRUE, "AutoModerator comment">>
    ELSE IF body.hard_negative_moderator_notice THEN <<TRUE, "Moderator notice">>
    ELSE IF body.service_pitch THEN <<TRUE, "Service pitch/self-promo">>
    ELSE <<FALSE, "">>

\* <<hard_negative, reason>>
is_hard_negative_comment(comment, body, thread_title) ==
    IF title_hard_skip(thread_title) THEN <<TRUE, "Meta/promo thread">>
    ELSE IF lower(comment.distinguished) \in {"moderator", "admin"}
    THEN <<TRUE, "Moderator/admin comment">>
    ELSE IF lower(comment.author) = "automoderator" THEN <<TRUE, "AutoModerator comment">>
    ELSE IF comment.stickied THEN <<TRUE, "Stickied moderator comment">>
    ELSE IF body.hard_negative_moderator_notice THEN <<TRUE, "Moderator notice">>
    ELSE IF body.service_pitch THEN <<TRUE, "Service pitch/self-promo">>
    ELSE <<FALSE, "">>

\* pain_language without the cap of 12.
pain_language_uncapped(pain_term_hits) == IF pain_term_hits > 0 THEN pain_term_hits * 15 ELSE 0

\* score += min(pain_term_hits * 1.5, 12), in tenths
pain_language(pain_term_hits) == IF pain_term_hits > 0 THEN Min(pain_term_hits * 15, 120) ELSE 0

\* rank_comment_pain_potential with the quality test before the hard-negative one.
rank_comment_pain_potential_quality_first(body, thread_title, comment) ==
    IF low_quality_text_reason(body) # "" THEN -120
    ELSE IF is_hard_negative_comment(comment, body, thread_title)[1] THEN -200
    ELSE LET first_person_hits == body.first_person_count
             second_person_hits == body.second_person_count
         IN  (IF first_person_hits >= 3 THEN 40 ELSE IF first_person_hits >= 1 THEN 20 ELSE 0)
             + pain_language(body.pain_term_hits)
             + (IF body.rank_impact_hits > 0 THEN Min(body.rank_impact_hits * 30, 120) ELSE 0)
             + (IF body.attempt_failed THEN 30 ELSE 0)
             + (IF body.help_request THEN 20 ELSE 0)
             - (IF body.advice_start /\ first_person_hits <= 1 THEN 60 ELSE 0)
             - (IF second_person_hits >= first_person_hits + 3 /\ second_person_hits >= 4
                THEN 50 ELSE 0)
             - (IF body.success_tokens THEN 60 ELSE 0)
             - (IF body.url THEN (IF body.promo_url THEN 40 ELSE 10) ELSE 0)
             + (IF Cardinality(title_tokens(thread_title) \cap body.text_tokens) >= 2
                THEN 20 ELSE 0)

\* The pre-rank score, in tenths: every term is a multiple of 0.5, so the sum
\* is exact and round(score, 1) leaves it as it is.
rank_comment_pain_potential(body, thread_title, comment) ==
    IF is_hard_negative_comment(comment, body, thread_title)[1] THEN -200
    ELSE IF low_quality_text_reason(body) # "" THEN -120
    ELSE LET first_person_hits == body.first_person_count
             second_person_hits == body.second_person_count
         IN  (IF first_person_hits >= 3 THEN 40 ELSE IF first_person_hits >= 1 THEN 20 ELSE 0)
             + pain_language(body.pain_term_hits)
             + (IF body.rank_impact_hits > 0 THEN Min(body.rank_impact_hits * 30, 120) ELSE 0)
             + (IF body.attempt_failed THEN 30 ELSE 0)
             + (IF body.help_request THEN 20 ELSE 0)
             - (IF body.advice_start /\ first_person_hits <= 1 THEN 60 ELSE 0)
             - (IF second_person_hits >= first_person_hits + 3 /\ second_person_hits >= 4
                THEN 50 ELSE 0)
             - (IF body.success_tokens THEN 60 ELSE 0)
             - (IF body.url THEN (IF body.promo_url THEN 40 ELSE 10) ELSE 0)
             + (IF Cardinality(title_tokens(thread_title) \cap body.text_tokens) >= 2
                THEN 20 ELSE 0)

\* hard_gate with second-person dominance tested before pure advice.
hard_gate_dominance_first(body, thread_title) ==
    IF body.sentences < 2 THEN "Less than 2 sentences"
    ELSE IF title_hard_skip(thread_title) THEN "Meta/promo thread"
    ELSE IF low_quality_text_reason(body) # "" THEN low_quality_text_reason(body)
    ELSE IF body.bot THEN "Bot message"
    ELSE IF body.promo THEN "Self-promotion"
    ELSE IF body.moderator_notice THEN "Moderator notice"
    ELSE IF /\ body.second_person_count >= body.first_person_count + 3
            /\ body.second_person_count >= 4
    THEN "Advice-dominant (second-person)"
    ELSE IF body.advice_start /\ body.first_person_count <= 1 THEN "Pure advice"
    ELSE IF body.first_person_count = 0 /\ body.third_person
    THEN "About someone else's experience"
    ELSE ""

\* The nine early returns of is_substantive_pain_expression, in their order:
\* the reason of the first that applies, "" when none does.
hard_gate(body, thread_title) ==
    IF body.sentences < 2 THEN "Less than 2 sentences"
    ELSE IF title_hard_skip(thread_title) THEN "Meta/promo thread"
    ELSE IF low_quality_text_reason(body) # "" THEN low_quality_text_reason(body)
    ELSE IF body.bot THEN "Bot message"
    ELSE IF body.promo THEN "Self-promotion"
    ELSE IF body.moderator_notice THEN "Moderator notice"
    ELSE IF body.advice_start /\ body.first_person_count <= 1 THEN "Pure advice"
    ELSE IF /\ body.second_person_count >= body.first_person_count + 3
            /\ body.second_person_count >= 4
    THEN "Advice-dominant (second-person)"
    ELSE IF body.first_person_count = 0 /\ body.third_person
    THEN "About someone else's experience"
    ELSE ""

own_context(body) ==
    body.own_context_hits > 0 \/ (body.first_person_count >= 3 /\ body.business_context)

problem_signal(body) == body.fp_pain_hits + body.impact_hits + body.unresolved_hits > 0

needs_resolution(body) ==
    body.unresolved_hits > 0 \/ body.help_hits > 0 \/ body.needs_resolution_words

\* The terms that the source adds to pain_score, in its order.  A term of
\* 0.0 stands for an addition that the source skips, and a negative term
\* for a subtraction: for doubles x + 0.0 = x and x - y = x + (-y).
pain_score_terms(body) ==
    <<IF own_context(body) THEN Double(20) ELSE <<0, 0>>,
      IF body.fp_pain_hits > 0 THEN FMul(body.fp_pain_hits, Double(22)) ELSE <<0, 0>>,
      IF body.impact_hits > 0 THEN FMul(body.impact_hits, Double(28)) ELSE <<0, 0>>,
      IF body.unresolved_hits > 0
      THEN FMin(FMul(body.unresolved_hits, Double(12)), Double(36)) ELSE <<0, 0>>,
      IF body.help_hits > 0
      THEN FMin(FMul(body.help_hits, Double(13)), Double(26)) ELSE <<0, 0>>,
      IF body.attempt_failed THEN Double(18) ELSE <<0, 0>>,
      IF body.advice_hits > 0
      THEN FNeg(FMin(FMul(body.advice_hits, Double(15)), Double(45))) ELSE <<0, 0>>,
      IF body.success_phrases THEN FNeg(Double(25)) ELSE <<0, 0>>>>

\* The float that adding the first n terms to 0.0, one after the other, leaves.
RECURSIVE FSum(_, _)
FSum(terms, n) == IF n = 0 THEN <<0, 0>> ELSE FAdd(FSum(terms, n - 1), terms[n])

\* pain_score, as the float the additions and subtractions of the source
\* leave in it.
FSumAll(terms) == FSum(terms, Len(terms))
pain_score(body) == FSumAll(pain_score_terms(body))

\* category_of with the staffing rule tried before the cash-flow rule.
category_of_staffing_first(body) ==
    IF 2 \in body.category_matches THEN "staffing"
    ELSE IF 1 \in body.category_matches THEN "cash_flow_finance"
    ELSE IF 3 \in body.category_matches THEN "operations_systems"
    ELSE IF 4 \in body.category_matches THEN "marketing_growth"
    ELSE IF 5 \in body.category_matches THEN "legal_compliance"
    ELSE IF 6 \in body.category_matches THEN "founder_burnout"
    ELSE IF 7 \in body.category_matches THEN "customer_management"
    ELSE "general_business_pain"

\* The if/elif chain over the category patterns.
category_of(body) ==
    IF 1 \in body.category_matches THEN "cash_flow_finance"
    ELSE IF 2 \in body.category_matches THEN "staffing"
    ELSE IF 3 \in body.category_matches THEN "operations_systems"
    ELSE IF 4 \in body.category_matches THEN "marketing_growth"
    ELSE IF 5 \in body.category_matches THEN "legal_compliance"
    ELSE IF 6 \in body.category_matches THEN "founder_burnout"
    ELSE IF 7 \in body.category_matches THEN "customer_management"
    ELSE "general_business_pain"

\* [is_pain, category, score, reason]: min_score and score in tenths, category
\* "none" for None; the reason of the score gate is followed in the source by
\* the two scores it compared, each formatted with one decimal.
\* The returns of is_substantive_pain_expression once pain_score is computed:
\* early is the reason of hard_gate.
scored_verdict(body, early, pain, min_score) ==
    LET rejected(score, reason) ==
            [is_pain |-> FALSE, category |-> "none", score |-> score, reason |-> reason]
    IN  IF early # "" THEN rejected(0, early)
        ELSE IF ~own_context(body) THEN rejected(Round1(pain), "No clear own-experience context")
        ELSE IF ~problem_signal(body) THEN rejected(Round1(pain), "No concrete pain indicators")
        ELSE IF ~needs_resolution(body) THEN rejected(Round1(pain), "Not clearly unresolved")
        ELSE IF FLess(pain, Double(min_score))
        THEN rejected(Round1(pain), "Pain score too low")
        ELSE [is_pain |-> TRUE, category |-> category_of(body), score |-> Round1(pain),
              reason |-> "APPROVED"]

is_substantive_pain_expression(body, thread_title, min_score) ==
    scored_verdict(body, hard_gate(body, thread_title), pain_score(body), min_score)

(***************************************************************************)
(* ranked_candidates.sort(key=(pre_rank_score, reddit_score, len(body)),   *)
(* reverse=True): descending and stable.                                   *)
(***************************************************************************)
KeyGreater(x, y) ==
    \/ x.pre_rank_score > y.pre_rank_score
    \/ x.pre_rank_score = y.pre_rank_score /\ x.reddit_score > y.reddit_score
    \/ /\ x.pre_rank_score = y.pre_rank_score
       /\ x.reddit_score = y.reddit_score
       /\ x.body.chars > y.body.chars

\* The candidates left in the order in which they were appended.
SortCandidatesNot(s) == s

\* before[i] counts the candidates that the sort puts before candidate i:
\* those with a greater key, and those with the same key that were before it.
SortCandidates(s) ==
    LET before == [i \in DOMAIN s |->
                      Cardinality({j \in DOMAIN s :
                          KeyGreater(s[j], s[i]) \/ (j < i /\ ~KeyGreater(s[i], s[j]))})]
    IN  [place \in DOMAIN s |-> s[CHOOSE i \in DOMAIN s : before[i] = place - 1]]

(***************************************************************************)
(* State.                                                                  *)
(***************************************************************************)
VARIABLES
    TARGET_COMMENTS,        \* configuration: the collection target
    site,                   \* the threads the content source serves in this run
    THREAD_URLS,            \* the thread list of the run
    rejected_threads,       \* the rejected-thread set
    rows,                   \* accepted records
    seen_ids,               \* ids registered at acceptance
    seen_texts,             \* accepted texts, in acceptance order
    rejected_comments,      \* records of candidates the classifier turned down
    pain_category_counts,   \* category -> number of accepted comments
    thread_productivity,    \* url -> [title, pain_comments]
    relaxed_mode_announced,
    pc,                     \* position in the main loop
    thread_idx,             \* 1-based index of the current thread
    collected_so_far,
    progress_ratio,
    collected_ratio,
    relaxed_threshold_mode,
    current_pre_rank_min,
    current_classifier_min,
    attempt,                \* retry counter of the main loop
    fetch_attempt,          \* retry counter inside fetch_thread
    comments,               \* the fetched comments of the current thread
    pos,                    \* index of the next comment to filter
    ranked_candidates,
    k,                      \* index of the next ranked candidate
    thread_count,
    thread_rejected,
    \* history, for the properties only
    loaded_rejected,        \* rejected_threads as loaded at run start
    requests,               \* fetch requests issued for the current thread
    waits,                  \* <<wait before the previous retry, last wait>>
    only429,                \* every response of the current thread was a 429
    scored,                 \* id -> number of pre-rank scorings
    classified,             \* id -> number of strict classifications
    outcome,                \* thread index -> how its processing ended
    \* the functions called on their own
    call,                   \* the arguments of the call, <<>> in a run of the program
    returned                \* what the call returned, <<>> until it has

config == <<TARGET_COMMENTS, site, THREAD_URLS, loaded_rejected>>
accepted == <<rows, seen_ids, seen_texts, pain_category_counts>>
run == <<rejected_threads, rejected_comments, thread_productivity, relaxed_mode_announced>>
threshold == <<collected_so_far, progress_ratio, collected_ratio, relaxed_threshold_mode,
               current_pre_rank_min, current_classifier_min>>
fetching == <<attempt, fetch_attempt, requests, waits, only429>>
scanning == <<comments, pos, ranked_candidates, k, thread_count, thread_rejected>>
history == <<scored, classified, outcome>>
calls == <<call, returned>>
vars == <<config, accepted, run, threshold, fetching, scanning, history, pc, thread_idx, calls>>

AllIds == 0..(30 + RANKED_COMMENT_SCAN_LIMIT + 1)

url == THREAD_URLS[thread_idx]
\* fetch_thread returns the title with the comments; a thread's title stands
\* for the thread, so the url is used for it.
title == url

Init ==
    /\ \E sc \in Scenarios : TARGET_COMMENTS = sc[1] /\ site = sc[2]
    /\ THREAD_URLS \in ListsOf(site)
    /\ rejected_threads \in SUBSET {"u2"}
    /\ loaded_rejected = rejected_threads
    /\ rows = <<>>
    /\ seen_ids = {}
    /\ seen_texts = <<>>
    /\ rejected_comments = <<>>
    /\ pain_category_counts = <<>>
    /\ thread_productivity = <<>>
    /\ relaxed_mode_announced = FALSE
    /\ pc = IF Len(THREAD_URLS) = 0 THEN "analysis" ELSE "thread"
    /\ thread_idx = 1
    /\ collected_so_far = 0
    /\ progress_ratio = <<0, 1>>
    /\ collected_ratio = <<0, 1>>
    /\ relaxed_threshold_mode = FALSE
    /\ current_pre_rank_min = PRE_RANK_MIN_SCORE
    /\ current_classifier_min = STRICT_CLASSIFIER_MIN_SCORE
    /\ attempt = 0
    /\ fetch_attempt = 0
    /\ requests = 0
    /\ waits = <<0, 0>>
    /\ only429 = TRUE
    /\ comments = <<>>
    /\ pos = 1
    /\ ranked_candidates = <<>>
    /\ k = 1
    /\ thread_count = 0
    /\ thread_rejected = 0
    /\ scored = [i \in AllIds |-> 0]
    /\ classified = [i \in AllIds |-> 0]
    /\ outcome = <<>>
    /\ call = <<>>
    /\ returned = <<>>

(***************************************************************************)
(* The adaptive threshold decision at the top of the loop body.  A ratio   *)
(* is the pair <<numerator, denominator>>.                                 *)
(***************************************************************************)
\* ProgressRatio counting only the threads already finished.
ProgressRatioFinishedThreads(idx, total) == <<idx - 1, Max(total, 1)>>

\* progress_ratio = thread_idx / max(len(THREAD_URLS), 1)
ProgressRatio(idx, total) == <<idx, Max(total, 1)>>

\* collected_ratio = collected_so_far / max(TARGET_COMMENTS, 1)
CollectedRatio(collected, target) == <<collected, Max(target, 1)>>

\* RelaxedMode that stays on once it has been on.
RelaxedModeSticky(progress, collected) ==
    \/ relaxed_mode_announced
    \/ /\ progress[1] * 100 >= ADAPTIVE_RELAX_TRIGGER_PROGRESS * progress[2]
       /\ collected[1] * 100 < ADAPTIVE_RELAX_MIN_COLLECTED_RATIO * collected[2]

\* relaxed_threshold_mode = progress_ratio >= ADAPTIVE_RELAX_TRIGGER_PROGRESS
\*                          and collected_ratio < ADAPTIVE_RELAX_MIN_COLLECTED_RATIO
RelaxedMode(progress, collected) ==
    /\ progress[1] * 100 >= ADAPTIVE_RELAX_TRIGGER_PROGRESS * progress[2]
    /\ collected[1] * 100 < ADAPTIVE_RELAX_MIN_COLLECTED_RATIO * collected[2]

StartThread ==
    /\ pc = "thread"
    /\ collected_so_far' = Len(rows)
    /\ progress_ratio' = ProgressRatio(thread_idx, Len(THREAD_URLS))
    /\ collected_ratio' = CollectedRatio(collected_so_far', TARGET_COMMENTS)
    /\ relaxed_threshold_mode' = RelaxedMode(progress_ratio', collected_ratio')
    /\ current_pre_rank_min' =
          IF relaxed_threshold_mode' THEN ADAPTIVE_PRE_RANK_MIN_SCORE ELSE PRE_RANK_MIN_SCORE
    /\ current_classifier_min' =
          IF relaxed_threshold_mode'
          THEN ADAPTIVE_CLASSIFIER_MIN_SCORE ELSE STRICT_CLASSIFIER_MIN_SCORE
    /\ relaxed_mode_announced' = (relaxed_mode_announced \/ relaxed_threshold_mode')
    /\ attempt' = 0
    /\ fetch_attempt' = 0
    /\ requests' = 0
    /\ waits' = <<0, 0>>
    /\ only429' = TRUE
    /\ pc' = "fetch"
    /\ UNCHANGED <<calls, config, accepted, rejected_threads, rejected_comments,
                   thread_productivity, scanning, history, thread_idx>>

(***************************************************************************)
(* Leaving the body of the loop for one thread.                            *)
(***************************************************************************)
\* NextThread that leaves the loop after any thread.
NextThreadEndsEarly == pc' = "analysis" /\ thread_idx' = thread_idx

\* The next iteration of "for thread_idx, url in enumerate(THREAD_URLS, 1)".
NextThread ==
    IF thread_idx < Len(THREAD_URLS)
    THEN pc' = "thread" /\ thread_idx' = thread_idx + 1
    ELSE pc' = "analysis" /\ thread_idx' = thread_idx

\* The values of the per-thread locals are dead once the thread is left.
ForgetThread ==
    /\ comments' = <<>>
    /\ pos' = 1
    /\ ranked_candidates' = <<>>
    /\ k' = 1
    /\ thread_count' = 0
    /\ thread_rejected' = 0

\* ExceptHandler that ends the loop over the threads.
ExceptHandlerEndsLoop(how) ==
    /\ thread_productivity' =
          (url :> [title |-> "ERROR", pain_comments |-> 0]) @@ thread_productivity
    /\ outcome' = Append(outcome, how)
    /\ pc' = "analysis"
    /\ thread_idx' = thread_idx
    /\ ForgetThread
    /\ attempt' = 0
    /\ fetch_attempt' = 0

\* "except Exception as e" of the main loop: the thread is recorded with
\* zero pain comments and the loop goes on.
ExceptHandler(how) ==
    /\ thread_productivity' =
          (url :> [title |-> "ERROR", pain_comments |-> 0]) @@ thread_productivity
    /\ outcome' = Append(outcome, how)
    /\ NextThread
    /\ ForgetThread
    /\ attempt' = 0
    /\ fetch_attempt' = 0

(***************************************************************************)
(* fetch_thread and the retry loop of the main loop around it.  One action *)
(* is one HTTP request and what the two loops do with its outcome.         *)
(***************************************************************************)
\* requests and waits record the requests of the current thread and the
\* sleeps between them for as long as every answer was a 429.
Requested == requests' = IF only429' THEN requests + 1 ELSE 0
Slept(w) == waits' = IF only429' THEN <<waits[2], w>> ELSE <<0, 0>>
NoSleep == waits' = IF only429' THEN waits ELSE <<0, 0>>

\* fetch_thread raised an HTTPError; "except requests.exceptions.HTTPError"
\* of the main loop, where mentions429 is "'429' in str(e)".
MainLoopHTTPError(mentions429) ==
    IF mentions429 /\ attempt < max_retries - 1
    THEN /\ Slept((attempt + 1) * 10)
         /\ attempt' = attempt + 1
         /\ fetch_attempt' = 0
         /\ UNCHANGED <<thread_productivity, outcome, pc, thread_idx, scanning>>
    ELSE /\ ExceptHandler("fetch_failed")
         /\ NoSleep

\* The request is answered with status 429.
FetchRateLimited ==
    /\ pc = "fetch"
    /\ only429' = only429
    /\ Requested
    /\ IF fetch_attempt < fetch_max_retries - 1
       THEN /\ Slept((fetch_attempt + 1) * 3)
            /\ fetch_attempt' = fetch_attempt + 1
            /\ UNCHANGED <<attempt, thread_productivity, outcome, pc, thread_idx, scanning>>
       ELSE MainLoopHTTPError(TRUE)
    /\ UNCHANGED <<calls, config, accepted, rejected_threads, rejected_comments,
                   relaxed_mode_announced, threshold, scored, classified>>

\* The request is answered with another error status: fetch_thread raises at
\* once; the text of the error holds the url, which may contain "429".
FetchHTTPError ==
    /\ pc = "fetch"
    /\ only429' = FALSE
    /\ Requested
    /\ \E mentions429 \in BOOLEAN : MainLoopHTTPError(mentions429)
    /\ UNCHANGED <<calls, config, accepted, rejected_threads, rejected_comments,
                   relaxed_mode_announced, threshold, scored, classified>>

\* The request times out, the connection fails or the payload is malformed:
\* "except Exception" of fetch_thread; the main loop does not retry these.
FetchOtherError ==
    /\ pc = "fetch"
    /\ only429' = FALSE
    /\ Requested
    /\ IF fetch_attempt < fetch_max_retries - 1
       THEN /\ Slept(2)
            /\ fetch_attempt' = fetch_attempt + 1
            /\ UNCHANGED <<attempt, thread_productivity, outcome, pc, thread_idx, scanning>>
       ELSE /\ ExceptHandler("fetch_failed")
            /\ NoSleep
    /\ UNCHANGED <<calls, config, accepted, rejected_threads, rejected_comments,
                   relaxed_mode_announced, threshold, scored, classified>>

\* The request succeeds: title and comments are returned, the per-thread
\* counters are set up.
FetchOk ==
    /\ pc = "fetch"
    /\ only429' = FALSE
    /\ Requested
    /\ NoSleep
    /\ attempt' = 0
    /\ fetch_attempt' = 0
    /\ \E content \in site : comments' = content
    /\ pos' = 1
    /\ ranked_candidates' = <<>>
    /\ k' = 1
    /\ thread_count' = 0
    /\ thread_rejected' = 0
    /\ pc' = "filter"
    /\ UNCHANGED <<calls, config, accepted, run, threshold, history, thread_idx>>

(***************************************************************************)
(* "for c in comments": the basic filters, the hard-negative filter and    *)
(* the pre-rank threshold, one comment per step.                           *)
(***************************************************************************)
\* ReachesScorer without the test of the id-seen set.
ReachesScorerIgnoringSeenIds(c) ==
    /\ c.body.raw = "text"
    /\ ~(c.body.chars < MIN_CHARS \/ c.body.chars > MAX_CHARS)
    /\ ~(sentence_count(c.body) < MIN_SENTENCES)
    /\ ~is_hard_negative_comment(c, c.body, title)[1]

\* The comment passes every filter that comes before the pre-rank scorer.
ReachesScorer(c) ==
    /\ c.body.raw = "text"
    /\ c.id \notin seen_ids
    /\ ~(c.body.chars < MIN_CHARS \/ c.body.chars > MAX_CHARS)
    /\ ~(sentence_count(c.body) < MIN_SENTENCES)
    /\ ~is_hard_negative_comment(c, c.body, title)[1]

FilterComment ==
    /\ pc = "filter"
    /\ pos <= Len(comments)
    /\ LET c == comments[pos]
           pre_rank_score == rank_comment_pain_potential(c.body, title, c)
       IN  IF ReachesScorer(c)
           THEN /\ scored' = [scored EXCEPT ![c.id] = @ + 1]
                /\ ranked_candidates' =
                      IF pre_rank_score < current_pre_rank_min
                      THEN ranked_candidates
                      ELSE Append(ranked_candidates,
                                  [comment |-> c, body |-> c.body, cid |-> c.id,
                                   pre_rank_score |-> pre_rank_score,
                                   reddit_score |-> c.score])
           ELSE UNCHANGED <<scored, ranked_candidates>>
    /\ pos' = pos + 1
    /\ UNCHANGED <<calls, config, accepted, run, threshold, fetching, comments, k, thread_count,
                   thread_rejected, classified, outcome, pc, thread_idx>>

\* The comments are exhausted: ranked_candidates.sort(...).
RankCandidates ==
    /\ pc = "filter"
    /\ pos > Len(comments)
    /\ ranked_candidates' = SortCandidates(ranked_candidates)
    /\ k' = 1
    /\ pc' = IF Len(ranked_candidates) = 0 THEN "report" ELSE "classify"
    /\ UNCHANGED <<calls, config, accepted, run, threshold, fetching, comments, pos, thread_count,
                   thread_rejected, history, thread_idx>>

(***************************************************************************)
(* "for candidate in ranked_candidates[:RANKED_COMMENT_SCAN_LIMIT]": one   *)
(* candidate per step.                                                     *)
(***************************************************************************)
ScanEnd == Min(Len(ranked_candidates), RANKED_COMMENT_SCAN_LIMIT)

candidate == ranked_candidates[k]

\* What the text functions read of a body.
read_of(body) == [field \in DOMAIN body \ {"txt"} |-> body[field]]

\* The classifier is a pure function of the body, the thread title and the
\* minimum score: its verdicts on the inputs of the runs, as a table.
Verdicts ==
    [body \in {BodyReadings[text] : text \in BodyTexts}, thread_title \in URLs,
     min_score \in {STRICT_CLASSIFIER_MIN_SCORE, ADAPTIVE_CLASSIFIER_MIN_SCORE} |->
        is_substantive_pain_expression(body, thread_title, min_score)] @@ <<>>

verdict == Verdicts[read_of(candidate.body), title, current_classifier_min]

\* Continue without the two break statements.
ContinueWithoutBreak(break) ==
    /\ k' = k + 1
    /\ pc' = IF k + 1 > ScanEnd THEN "report" ELSE "classify"

\* The loop goes to its next candidate, or ends (break, or no candidate left).
Continue(break) ==
    /\ k' = k + 1
    /\ pc' = IF break \/ k + 1 > ScanEnd THEN "report" ELSE "classify"

Examining == pc = "classify" /\ k <= ScanEnd

record_of(v) ==
    [ID |-> candidate.cid, Post_Title |-> title, Full_Text |-> candidate.body.txt,
     Pain_Category |-> v.category, Pain_Score |-> v.score,
     PreRank_Score |-> candidate.pre_rank_score]

comment_data == record_of(verdict)

SkipSimilar ==
    /\ Examining
    /\ is_too_similar(candidate.body.txt, seen_texts)
    /\ Continue(FALSE)
    /\ UNCHANGED <<calls, config, accepted, run, threshold, fetching, comments, pos,
                   ranked_candidates, thread_count, thread_rejected, history, thread_idx>>

RejectCandidate ==
    /\ Examining
    /\ ~is_too_similar(candidate.body.txt, seen_texts)
    /\ LET Rejected(v) ==
               /\ ~v.is_pain
               /\ rejected_comments' =
                     Append(rejected_comments,
                            [comment_id |-> candidate.cid, thread |-> title, reason |-> v.reason,
                             score |-> v.score, preview |-> candidate.body.txt])
       IN  Rejected(verdict)
    /\ classified' = [classified EXCEPT ![candidate.cid] = @ + 1]
    /\ thread_rejected' = thread_rejected + 1
    /\ Continue(FALSE)
    /\ UNCHANGED <<calls, config, accepted, rejected_threads, thread_productivity,
                   relaxed_mode_announced, threshold, fetching, comments, pos,
                   ranked_candidates, thread_count, scored, outcome, thread_idx>>

\* The candidate is accepted and both output files take the record.
AcceptCandidate ==
    /\ Examining
    /\ ~is_too_similar(candidate.body.txt, seen_texts)
    /\ LET Accepted(v) ==
               /\ v.is_pain
               /\ rows' = Append(rows, record_of(v))
               /\ pain_category_counts' =
                     LET cat == v.category
                         old == IF cat \in DOMAIN pain_category_counts
                                THEN pain_category_counts[cat] ELSE 0
                     IN  (cat :> old + 1) @@ pain_category_counts
       IN  Accepted(verdict)
    /\ classified' = [classified EXCEPT ![candidate.cid] = @ + 1]
    /\ seen_ids' = seen_ids \cup {candidate.cid}
    /\ seen_texts' = Append(seen_texts, candidate.body.txt)
    /\ thread_count' = thread_count + 1
    /\ Continue(thread_count + 1 >= MAX_PER_THREAD \/ Len(rows) + 1 >= TARGET_COMMENTS)
    /\ UNCHANGED <<calls, config, run, threshold, fetching, comments, pos, ranked_candidates,
                   thread_rejected, scored, outcome, thread_idx>>

\* The candidate is accepted and appended to rows, and the append to an
\* output file raises: the exception handler of the main loop runs.
AcceptSaveFails ==
    /\ Examining
    /\ ~is_too_similar(candidate.body.txt, seen_texts)
    /\ LET Accepted(v) == v.is_pain /\ rows' = Append(rows, record_of(v))
       IN  Accepted(verdict)
    /\ classified' = [classified EXCEPT ![candidate.cid] = @ + 1]
    /\ ExceptHandler("error")
    /\ UNCHANGED <<calls, config, seen_ids, seen_texts, pain_category_counts, rejected_threads,
                   rejected_comments, relaxed_mode_announced, threshold, requests, waits,
                   only429, scored>>

(***************************************************************************)
(* After the candidates: thread_productivity, the progress report and the  *)
(* test of the target.                                                     *)
(***************************************************************************)
ReportThread ==
    /\ pc = "report"
    /\ IF TARGET_COMMENTS = 0
       THEN \* len(rows)/TARGET_COMMENTS raises ZeroDivisionError in the report
            ExceptHandler("error")
       ELSE /\ thread_productivity' =
                  (url :> [title |-> title, pain_comments |-> thread_count])
                      @@ thread_productivity
            /\ outcome' = Append(outcome, "evaluated")
            /\ IF Len(rows) >= TARGET_COMMENTS
               THEN pc' = "analysis" /\ thread_idx' = thread_idx
               ELSE NextThread
            /\ ForgetThread
            /\ UNCHANGED <<attempt, fetch_attempt>>
    /\ UNCHANGED <<calls, config, accepted, rejected_threads, rejected_comments,
                   relaxed_mode_announced, threshold, requests, waits, only429, scored,
                   classified>>

(***************************************************************************)
(* After the loop: the unproductive threads join the rejected-thread set.  *)
(***************************************************************************)
\* unproductive_urls taken over every url of THREAD_URLS.
unproductive_urls_of_every_thread ==
    {THREAD_URLS[n] : n \in DOMAIN THREAD_URLS} \
        {u \in DOMAIN thread_productivity : thread_productivity[u].pain_comments > 0}

unproductive_urls ==
    {u \in DOMAIN thread_productivity : ~(thread_productivity[u].pain_comments > 0)}

UpdateRejected ==
    /\ pc = "analysis"
    /\ rejected_threads' = rejected_threads \cup unproductive_urls
    /\ pc' = "done"
    /\ UNCHANGED <<calls, config, accepted, rejected_comments, thread_productivity,
                   relaxed_mode_announced, threshold, fetching, scanning, history, thread_idx>>

Next ==
    \/ StartThread
    \/ FetchRateLimited
    \/ FetchHTTPError
    \/ FetchOtherError
    \/ FetchOk
    \/ FilterComment
    \/ RankCandidates
    \/ SkipSimilar
    \/ RejectCandidate
    \/ AcceptCandidate
    \/ AcceptSaveFails
    \/ ReportThread
    \/ UpdateRejected

Spec == Init /\ [][Next]_vars

(***************************************************************************)
(* The text functions called on their own.  The texts tried: the three     *)
(* bodies named below and short comments put together from one to four    *)
(* sentences, chosen so that every early return of the strict classifier,  *)
(* every pair of them, every final gate, every category, scores on both    *)
(* sides of the two minimum scores and every pre-rank signal occur.        *)
(***************************************************************************)
\* The frustrated-customer example.
TextReviews ==
    "I can't figure out why my customers keep leaving bad reviews, I'm so frustrated and losing money every month. I've tried everything but nothing works."
\* The advice example.
TextAdvice == "You should raise your prices. You need to think about your margins."
\* A comment whose pain score adds up to 5.2.
TextCope == "Staff quit. I recommend it. If I were you. I cannot cope."

Texts ==
    {TextReviews, TextAdvice, TextCope,
     "Hi",
     "You must go.",
     "Please report it.",
     "He left. Any tips?",
     "I am a bot. He left.",
     "Thanks. The mod team.",
     "Any tips? You must go.",
     "I hate it. Staff quit.",
     "You must go. Any tips?",
     "He left. That'll do pig.",
     "You must go. I am a bot.",
     "He left. Subscribe today.",
     "We own two vans. He left.",
     "Please report it. He left.",
     "I hate it. We own two vans.",
     "Please report it. I am a bot.",
     "You must go. Subscribe today.",
     "We help owners. Open all week.",
     "We own two vans. I still wait.",
     "Visit acme.com now. I am a bot.",
     "I hate it. The post was removed.",
     "That'll do pig. Please report it.",
     "Please report it. We help owners.",
     "We own two vans. How do I fix it?",
     "Please report it. Subscribe today.",
     "That'll do pig. Visit acme.com now.",
     "If I were you. The post was removed.",
     "Worried, confused, failing, drowning.",
     "You and your team, you know your job.",
     "See https://x.io today. Subscribe today.",
     "My shop is quiet. Net 30 hurts. Any tips?",
     "I cannot cope. I hate it. My shop is quiet.",
     "Any tips? How do I fix it? My shop is quiet.",
     "You and your team, you know your job. He left.",
     "I run a small bakery. Any tips? I am exhausted.",
     "You and your team, you know your job. I hate it.",
     "I am a bot. You and your team, you know your job.",
     "My client left. We are losing money. I still wait.",
     "Congrats on the milestone! I tried ads but it failed.",
     "Subscribe today. You and your team, you know your job.",
     "We own two vans. If I were you. Any tips? Net 30 hurts.",
     "My shop is quiet. I am stuck. I tried ads but it failed.",
     "My client left. I am exhausted. He left. How do I fix it?",
     "The lawyer called. I can't pay the rent. We own two vans.",
     "I hate it. We hire slowly. Cash flow is bad. I still wait.",
     "My shop is quiet. I still wait. I tried ads but it failed.",
     "I tried ads but it failed. How do I fix it? My client left.",
     "The post was removed. You and your team, you know your job.",
     "I cannot cope. I tried ads but it failed. I can't pay the rent.",
     "Staff quit. We need help with it. I hate it. I can't pay the rent.",
     "I cannot cope. All good now. I run a small bakery. How do I fix it?",
     "We own two vans. I am stuck. How do I fix it? The process is manual.",
     "We own two vans. I tried ads but it failed. We hire slowly. I am stuck.",
     "I am stuck. We keep losing orders. The process is manual. My client left.",
     "I still wait. Cash flow is bad. I cannot cope. I tried ads but it failed.",
     "The lawyer called. I am exhausted. I can't pay the rent. My shop is quiet.",
     "I am stuck. You should rest. I run a small bakery. I tried ads but it failed.",
     "I tried ads but it failed. My client left. The process is manual. I am stuck.",
     "Staff quit. Frustrating, overwhelmed, stressed, struggling. My shop is quiet.",
     "My shop is quiet. How do I fix it? Staff quit. Worried, confused, failing, drowning.",
     "Worried, confused, failing, drowning. Frustrating, overwhelmed, stressed, struggling.",
     "Congrats on the milestone! Frustrating, overwhelmed, stressed, struggling. We own two vans.",
     "Worried, confused, failing, drowning. Frustrating, overwhelmed, stressed, struggling. Stuck again.",
     "My shop is quiet. I can't pay the rent. Frustrating, overwhelmed, stressed, struggling. You could sell.",
     "Worried, confused, failing, drowning. Frustrating, overwhelmed, stressed, struggling. Stuck again, a problem."}

\* What reading each text gives.
Readings == [t \in Texts |-> Reading(t)]

\* The thread titles tried: one that shares words with some texts and one of
\* a meta thread.
Titles == {"Cash flow trouble at my shop", "Weekly thread: promote your business"}

\* The comments tried: what the thread JSON says of the author, of the
\* distinguished mark ("" when it is null) and of the sticky flag.
Authorship ==
    {[author |-> "someone", distinguished |-> "", stickied |-> FALSE],
     [author |-> "someone", distinguished |-> "", stickied |-> TRUE],
     [author |-> "someone", distinguished |-> "Admin", stickied |-> FALSE],
     [author |-> "AutoModerator", distinguished |-> "", stickied |-> TRUE],
     [author |-> "automoderator", distinguished |-> "", stickied |-> FALSE],
     [author |-> "AutoModerator", distinguished |-> "moderator", stickied |-> TRUE]}

\* The minimum scores the main loop passes to the classifier.
MinScores == {STRICT_CLASSIFIER_MIN_SCORE, ADAPTIVE_CLASSIFIER_MIN_SCORE}

\* The program is not running.
Idle ==
    /\ TARGET_COMMENTS = 0
    /\ site = {}
    /\ THREAD_URLS = <<>>
    /\ rejected_threads = {}
    /\ loaded_rejected = {}
    /\ rows = <<>>
    /\ seen_ids = {}
    /\ seen_texts = <<>>
    /\ rejected_comments = <<>>
    /\ pain_category_counts = <<>>
    /\ thread_productivity = <<>>
    /\ relaxed_mode_announced = FALSE
    /\ pc = "idle"
    /\ thread_idx = 1
    /\ collected_so_far = 0
    /\ progress_ratio = <<0, 1>>
    /\ collected_ratio = <<0, 1>>
    /\ relaxed_threshold_mode = FALSE
    /\ current_pre_rank_min = PRE_RANK_MIN_SCORE
    /\ current_classifier_min = STRICT_CLASSIFIER_MIN_SCORE
    /\ attempt = 0
    /\ fetch_attempt = 0
    /\ requests = 0
    /\ waits = <<0, 0>>
    /\ only429 = TRUE
    /\ comments = <<>>
    /\ pos = 1
    /\ ranked_candidates = <<>>
    /\ k = 1
    /\ thread_count = 0
    /\ thread_rejected = 0
    /\ scored = <<>>
    /\ classified = <<>>
    /\ outcome = <<>>

program == <<config, accepted, run, threshold, fetching, scanning, history, pc, thread_idx>>

InitText ==
    /\ Idle
    /\ call \in [text : Texts, thread_title : Titles, comment : Authorship,
                 min_score : MinScores]
    /\ returned = [hard_negative |-> <<>>, quality_issue |-> <<>>, pre_rank_score |-> <<>>,
                   verdict |-> <<>>]

CallHardNegative ==
    /\ returned.hard_negative = <<>>
    /\ returned' = [returned EXCEPT !.hard_negative =
          <<is_hard_negative_comment(call.comment, Readings[call.text], call.thread_title)>>]
    /\ UNCHANGED <<call, program>>

CallLowQuality ==
    /\ returned.quality_issue = <<>>
    /\ returned' = [returned EXCEPT !.quality_issue =
          <<low_quality_text_reason(Readings[call.text])>>]
    /\ UNCHANGED <<call, program>>

CallRank ==
    /\ returned.pre_rank_score = <<>>
    /\ returned' = [returned EXCEPT !.pre_rank_score =
          <<rank_comment_pain_potential(Readings[call.text], call.thread_title, call.comment)>>]
    /\ UNCHANGED <<call, program>>

CallClassifier ==
    /\ returned.verdict = <<>>
    /\ returned' = [returned EXCEPT !.verdict =
          <<is_substantive_pain_expression(Readings[call.text], call.thread_title,
                                           call.min_score)>>]
    /\ UNCHANGED <<call, program>>

NextText ==
    \/ CallHardNegative
    \/ CallLowQuality
    \/ CallRank
    \/ CallClassifier

SpecText == InitText /\ [][NextText]_vars

(***************************************************************************)
(* Properties.                                                             *)
(***************************************************************************)
RowIds == {rows[i].ID : i \in DOMAIN rows}
InThread == {"fetch", "filter", "classify", "report"}

\* C1 as stated: in one run every comment id is pre-rank scored at most once
\* and strictly classified at most once, whatever became of its earlier
\* occurrence.
C1_EvaluatedAtMostOnce ==
    \A i \in AllIds : scored[i] <= 1 /\ classified[i] <= 1

\* C1 amended: once an id is in the id-seen set, no later occurrence of it is
\* pre-rank scored, and it is strictly classified again only as a repeat
\* within the ranked candidates of the thread that registered it.
C1_RegisteredIdNotEvaluatedAgain ==
    [][\A i \in seen_ids :
          /\ scored'[i] = scored[i]
          /\ classified'[i] # classified[i] =>
                \E j \in 1..(k - 1) : ranked_candidates[j].cid = i]_vars

\* An id that is registered came up again and was dropped without scoring.
C1_Witness ==
    /\ TARGET_COMMENTS > 0
    /\ pc = "filter"
    /\ pos > 1
    /\ comments[pos - 1].id \in seen_ids
    /\ scored[comments[pos - 1].id] = 1
    /\ Len(outcome) > 0

\* C2: an id enters the id-seen set only when its comment is accepted, and
\* no two accepted records carry the same comment id.
C2_AcceptedIdsUnique ==
    /\ seen_ids \subseteq RowIds
    /\ \A i, j \in DOMAIN rows : i # j => rows[i].ID # rows[j].ID

\* C3: for a positive target the accepted records never outnumber the
\* target, and once the target is met no thread is fetched or scanned.
C3_TargetRespected ==
    TARGET_COMMENTS > 0 =>
        /\ Len(rows) <= TARGET_COMMENTS
        /\ Len(rows) = TARGET_COMMENTS => pc \notin {"fetch", "filter", "classify"}

FromThread(u) == {i \in DOMAIN rows : rows[i].Post_Title = u}

ThresholdsFixedInThread == [][(pc \in InThread) => threshold' = threshold]_vars

\* C5: in every thread the relaxed minimums are in force exactly when, at
\* the start of the thread, progressRatio >= 0.55 and collectedRatio < 0.35,
\* whatever mode earlier threads ran in, and otherwise the strict ones; the
\* minimums do not change while a thread is processed.
C5_RelaxedIffCondition ==
    [](pc \in InThread =>
            /\ relaxed_threshold_mode <=>
                  /\ progress_ratio[1] * 100 >= 55 * progress_ratio[2]
                  /\ collected_ratio[1] * 100 < 35 * collected_ratio[2]
            /\ current_pre_rank_min = IF relaxed_threshold_mode THEN 50 ELSE 60
            /\ current_classifier_min = IF relaxed_threshold_mode THEN 52 ELSE 60)
    /\ ThresholdsFixedInThread

\* A thread runs strict after an earlier thread ran relaxed.
C5_Witness ==
    /\ relaxed_mode_announced
    /\ ~relaxed_threshold_mode
    /\ pc = "filter"
    /\ comments # <<>>

\* C6 as stated: progressRatio is the number of threads already finished (0
\* for the first thread) over the number of threads, and collectedRatio the
\* number of accepted comments over the target.
C6_ProgressCountsFinishedThreads ==
    pc \in InThread =>
        /\ progress_ratio[1] = Len(outcome)
        /\ progress_ratio[2] = Len(THREAD_URLS)
        /\ collected_ratio = <<collected_so_far, TARGET_COMMENTS>>

\* C6 amended: progressRatio is the 1-based position of the current thread
\* (threads already finished plus one) over max(number of threads, 1), and
\* collectedRatio the number of records accepted before the thread over
\* max(target, 1).
C6_ProgressCountsCurrentThread ==
    pc \in InThread =>
        /\ progress_ratio = <<Len(outcome) + 1, Max(Len(THREAD_URLS), 1)>>
        /\ collected_ratio = <<collected_so_far, Max(TARGET_COMMENTS, 1)>>
        /\ pc \in {"fetch", "filter"} => collected_so_far = Len(rows)

\* The thresholds of the first thread of a run have been computed.
C6_Witness ==
    /\ pc = "fetch"
    /\ thread_idx = 1
    /\ outcome = <<>>
    /\ progress_ratio[1] = 1
    /\ TARGET_COMMENTS > 0

\* C7: while a thread is being fetched the accepted records, the id-seen
\* set, the dedup window and the category counters do not change, and a
\* fetch that fails for good abandons the thread with zero candidates and
\* zero accepted comments and hands over to the next thread.
C7_FetchFailureIsContained ==
    [][(pc \in {"thread", "fetch"}) =>
          /\ UNCHANGED accepted
          /\ (pc = "fetch" /\ pc' \notin {"fetch", "filter"}) =>
                /\ pc' = IF thread_idx < Len(THREAD_URLS) THEN "thread" ELSE "analysis"
                /\ thread_idx < Len(THREAD_URLS) => thread_idx' = thread_idx + 1
                /\ ranked_candidates' = <<>>
                /\ thread_productivity'[url].pain_comments = 0
                /\ outcome' = Append(outcome, "fetch_failed")]_vars

\* A fetch failed after records had been accepted, and the next thread is
\* about to start.
C7_Witness ==
    /\ outcome # <<>>
    /\ outcome[Len(outcome)] = "fetch_failed"
    /\ rows # <<>>
    /\ seen_ids # {}
    /\ pc = "thread"

\* C8: for a thread answered with 429 every time the number of requests is
\* bounded by the retry counts, and every wait is bounded and strictly
\* longer than the wait before it.
C8_BoundedIncreasingBackoff ==
    only429 =>
        /\ requests <= max_retries * fetch_max_retries
        /\ waits[2] <= 10 * max_retries
        /\ waits[1] > 0 => waits[2] > waits[1]

\* C9: with a collection target <= 0 the run stops at startup: no thread is
\* fetched and no comment is scored or accepted.
C9_BadTargetIsFatalAtStartup ==
    TARGET_COMMENTS <= 0 =>
        /\ pc \notin InThread
        /\ requests = 0
        /\ rows = <<>>
        /\ \A i \in AllIds : scored[i] = 0

\* C10: at the end of a run the rejected-thread set is the loaded set plus
\* the URLs added in the run, and no accepted record of the run comes from a
\* thread whose URL was added in the run.
C10_AddedUrlsYieldedNothing ==
    pc = "done" =>
        /\ loaded_rejected \subseteq rejected_threads
        /\ \A u \in rejected_threads \ loaded_rejected : FromThread(u) = {}

(***************************************************************************)
(* The text functions: what a call returned against the reading of its     *)
(* text.                                                                   *)
(***************************************************************************)
\* The reading of the text of the call.
Read == Readings[call.text]
\* The verdict of the classifier, once it has returned.
Classified == returned.verdict # <<>>
Verdict == returned.verdict[1]

\* The categories of the rules, in the order of the claim.
RuleCategory ==
    <<"cash_flow_finance", "staffing", "operations_systems", "marketing_growth",
      "legal_compliance", "founder_burnout", "customer_management">>

\* C13: the category of an accepted text is that of the first rule, in the
\* order cash_flow_finance, staffing, operations_systems, marketing_growth,
\* legal_compliance, founder_burnout, customer_management, whose vocabulary
\* the text matches, and general_business_pain when it matches none; a text
\* with both cash-flow and staffing vocabulary is always cash_flow_finance.
C13_CategoryIsFirstMatchingRule ==
    (Classified /\ Verdict.is_pain) =>
        LET matching == Read.category_matches
        IN  /\ matching = {} => Verdict.category = "general_business_pain"
            /\ \A i \in matching :
                  (\A j \in matching : i <= j) => Verdict.category = RuleCategory[i]
            /\ {1, 2} \subseteq matching => Verdict.category = "cash_flow_finance"

\* C13: an accepted text with cash-flow and staffing vocabulary.
C13_Witness ==
    /\ Classified
    /\ Verdict.is_pain
    /\ {1, 2} \subseteq Read.category_matches

\* The pain score as the sum of the weights of the source, in tenths.
WeightedScore(body) ==
    (IF own_context(body) THEN 20 ELSE 0)
    + 22 * body.fp_pain_hits
    + 28 * body.impact_hits
    + Min(12 * body.unresolved_hits, 36)
    + Min(13 * body.help_hits, 26)
    + (IF body.attempt_failed THEN 18 ELSE 0)
    - Min(15 * body.advice_hits, 45)
    - (IF body.success_phrases THEN 25 ELSE 0)

\* The reason of the first final gate a text fails, "" when it passes all.
FirstFailingFinalGate(body, min_score) ==
    IF ~own_context(body) THEN "No clear own-experience context"
    ELSE IF ~problem_signal(body) THEN "No concrete pain indicators"
    ELSE IF ~needs_resolution(body) THEN "Not clearly unresolved"
    ELSE IF WeightedScore(body) < min_score THEN "Pain score too low"
    ELSE ""

\* C14: a text that triggers none of the nine hard gates is accepted exactly
\* when it has own-experience context, a problem signal, a need for
\* resolution and a pain score of at least the minimum passed in; a rejected
\* one carries the reason of the first of these it fails, in this order, and
\* no category; an accepted one carries its category.
C14_AcceptedIffFinalGatesPass ==
    (Classified /\ hard_gate(Read, call.thread_title) = "") =>
        LET failing == FirstFailingFinalGate(Read, call.min_score)
        IN  /\ Verdict.is_pain <=> failing = ""
            /\ ~Verdict.is_pain => Verdict.reason = failing /\ Verdict.reason # ""
            /\ Verdict.category # "none" <=> Verdict.is_pain

\* Whether the call triggers the hard gate i, numbered in the order of the
\* claim, and the reason the gate gives.
HardGateTriggered(i) ==
    CASE i = 1 -> Read.sentences < 2
      [] i = 2 -> title_hard_skip(call.thread_title)
      [] i = 3 -> low_quality_text_reason(Read) # ""
      [] i = 4 -> Read.bot
      [] i = 5 -> Read.promo
      [] i = 6 -> Read.moderator_notice
      [] i = 7 -> Read.advice_start /\ Read.first_person_count <= 1
      [] i = 8 -> /\ Read.second_person_count >= Read.first_person_count + 3
                  /\ Read.second_person_count >= 4
      [] OTHER -> Read.first_person_count = 0 /\ Read.third_person

HardGateReason(i) ==
    CASE i = 1 -> "Less than 2 sentences"
      [] i = 2 -> "Meta/promo thread"
      [] i = 3 -> low_quality_text_reason(Read)
      [] i = 4 -> "Bot message"
      [] i = 5 -> "Self-promotion"
      [] i = 6 -> "Moderator notice"
      [] i = 7 -> "Pure advice"
      [] i = 8 -> "Advice-dominant (second-person)"
      [] OTHER -> "About someone else's experience"

HardGatesTriggered == {i \in 1..9 : HardGateTriggered(i)}

\* C15: the hard gates are tried in the order fewer than two sentences, title
\* hard-skip, quality issue, bot, self-promotion, moderator notice, pure
\* advice, second-person dominance, third-person-only; a text that triggers
\* some of them is rejected with the reason of the first one it triggers and
\* without a category.  "You should raise your prices. You need to think
\* about your margins." is rejected as pure advice.
C15_FirstTriggeredHardGateRejects ==
    Classified =>
        /\ \A i \in HardGatesTriggered :
              (\A j \in HardGatesTriggered : i <= j) =>
                  /\ ~Verdict.is_pain
                  /\ Verdict.category = "none"
                  /\ Verdict.reason = HardGateReason(i)
        /\ (call.text = TextAdvice /\ ~title_hard_skip(call.thread_title)) =>
              ~Verdict.is_pain /\ Verdict.reason = "Pure advice"

\* C15: the advice example, which triggers two gates, has been classified.
C15_Witness ==
    /\ Classified
    /\ call.text = TextAdvice
    /\ ~title_hard_skip(call.thread_title)
    /\ HardGatesTriggered = {7, 8}

\* C16: with the default minimum score, the body "I can't figure out why my
\* customers keep leaving bad reviews, I'm so frustrated and losing money
\* every month. I've tried everything but nothing works." is no hard
\* negative, passes the quality filter and is accepted by the strict
\* classifier with the category cash_flow_finance.
C16_ReviewsExampleAccepted ==
    (/\ call.text = TextReviews
     /\ ~title_hard_skip(call.thread_title)
     /\ call.comment.author = "someone" /\ call.comment.distinguished = ""
     /\ ~call.comment.stickied
     /\ call.min_score = STRICT_CLASSIFIER_MIN_SCORE) =>
        /\ returned.hard_negative # <<>> => ~returned.hard_negative[1][1]
        /\ returned.quality_issue # <<>> => returned.quality_issue[1] = ""
        /\ Classified => Verdict.is_pain /\ Verdict.category = "cash_flow_finance"

\* The call is about a stickied comment of the moderation bot.
BotSticky == call.comment.stickied /\ lower(call.comment.author) = "automoderator"

\* C17 as stated: for every stickied comment whose author is the moderation
\* bot, whatever the case of the name and whatever the body, the hard-negative
\* filter returns true with the reason of an automated-moderation comment.
C17_BotStickyReasonIsBot ==
    (returned.hard_negative # <<>> /\ BotSticky) =>
        returned.hard_negative[1] = <<TRUE, "AutoModerator comment">>

\* C17 amended: for every stickied comment of the moderation bot the filter
\* returns true whatever the body; its reason is that of an AutoModerator
\* comment unless the thread title holds a hard-skip keyword (then it is
\* that of a meta thread) or the comment is distinguished as moderator or
\* admin (then it is that of a moderator comment).
C17_BotStickyIsHardNegative ==
    (returned.hard_negative # <<>> /\ BotSticky) =>
        /\ returned.hard_negative[1][1]
        /\ returned.hard_negative[1][2] =
              IF title_hard_skip(call.thread_title) THEN "Meta/promo thread"
              ELSE IF lower(call.comment.distinguished) \in {"moderator", "admin"}
              THEN "Moderator/admin comment"
              ELSE "AutoModerator comment"

\* C17: the filter has returned the AutoModerator reason for a stickied
\* comment of "AutoModerator" whose body is a service pitch.
C17_Witness ==
    /\ returned.hard_negative = <<(<<TRUE, "AutoModerator comment">>)>>
    /\ BotSticky
    /\ call.comment.author = "AutoModerator"
    /\ Read.service_pitch

\* The two sentinel scores of rank_comment_pain_potential.
HardNegativeSentinel == -200
LowQualitySentinel == -120

\* In the main loop no ranked candidate has a pre-rank score under the
\* minimum in force, and none is a hard negative: a comment scored with a
\* sentinel is never appended to ranked_candidates.
SentinelNeverRanked ==
    \A i \in 1..Len(ranked_candidates) :
        /\ ranked_candidates[i].pre_rank_score >= current_pre_rank_min
        /\ ~is_hard_negative_comment(ranked_candidates[i].comment, ranked_candidates[i].body,
                                     title)[1]
        /\ low_quality_text_reason(ranked_candidates[i].body) = ""

\* C18: the pre-rank scorer returns -20 whenever the hard-negative filter
\* rejects, also when the quality filter flags the text as well; it returns
\* -12 whenever the quality filter flags a text the hard-negative filter
\* lets pass; it returns a number in every case; and both sentinels are
\* below the strict and the relaxed pre-rank minimum, so that the test
\* "pre_rank_score < current_pre_rank_min" of the main loop drops the comment.
C18_SentinelsOfPreRank ==
    returned.pre_rank_score # <<>> =>
        LET score == returned.pre_rank_score[1]
            hard_negative == is_hard_negative_comment(call.comment, Read, call.thread_title)[1]
            quality_issue == low_quality_text_reason(Read)
        IN  /\ score \in Int
            /\ hard_negative => score = HardNegativeSentinel
            /\ (~hard_negative /\ quality_issue # "") => score = LowQualitySentinel
            /\ (hard_negative \/ quality_issue # "") =>
                  /\ score < PRE_RANK_MIN_SCORE
                  /\ score < ADAPTIVE_PRE_RANK_MIN_SCORE

\* C18: the scorer has returned -20 for a comment that the hard-negative
\* filter rejects and whose text the quality filter flags.
C18_Witness ==
    /\ returned.pre_rank_score = <<HardNegativeSentinel>>
    /\ is_hard_negative_comment(call.comment, Read, call.thread_title)[1]
    /\ low_quality_text_reason(Read) # ""

\* The scorer has returned -12: the text is flagged by the quality filter only.
LowQualityScored ==
    /\ returned.pre_rank_score = <<LowQualitySentinel>>
    /\ ~is_hard_negative_comment(call.comment, Read, call.thread_title)[1]

\* The pre-rank score of the call's comment had its text held n of the
\* pain terms and every other signal been what it is.
ScoreWithPainTerms(n) ==
    rank_comment_pain_potential([Read EXCEPT !.pain_term_hits = n], call.thread_title,
                                call.comment)

\* C19: with every other signal of the text, the title and the comment as
\* they are, one more recognized pain term never lowers the pre-rank score,
\* from no term to all the terms of the list; and when the score is not a
\* sentinel the terms contribute 1.5 for each distinct term of the list that
\* occurs in the text, 12 at most.
C19_PainTermsNeverLowerScore ==
    returned.pre_rank_score # <<>> =>
        LET hard_negative == is_hard_negative_comment(call.comment, Read, call.thread_title)[1]
            quality_issue == low_quality_text_reason(Read)
        IN  /\ ScoreWithPainTerms(Read.pain_term_hits) = returned.pre_rank_score[1]
            /\ \A n \in 0..(Len(pain_terms) - 1) :
                  ScoreWithPainTerms(n) <= ScoreWithPainTerms(n + 1)
            /\ (~hard_negative /\ quality_issue = "") =>
                  \A n \in 0..Len(pain_terms) :
                      ScoreWithPainTerms(n) - ScoreWithPainTerms(0) = Min(15 * n, 120)

\* C19: the scorer has returned the score of a text that is no sentinel case
\* and holds more pain terms than the cap pays for.
C19_Witness ==
    /\ returned.pre_rank_score # <<>>
    /\ ~is_hard_negative_comment(call.comment, Read, call.thread_title)[1]
    /\ low_quality_text_reason(Read) = ""
    /\ Read.pain_term_hits > 8
    /\ returned.pre_rank_score[1] - ScoreWithPainTerms(0) = 120

(***************************************************************************)
(* Thread discovery: discover_threads from the posts it has retrieved, and *)
(* the assembly of THREAD_URLS from its result.  A post is the "data" of a *)
(* listing child: title, selftext ("" when it is null), num_comments,      *)
(* score and permalink.                                                    *)
(***************************************************************************)
MIN_COMMENTS_PER_THREAD == 10
MIN_DISCOVERED_THREADS_AFTER_FILTER == 60

HIGH_VALUE_KEYWORDS ==
    <<"can't", "cannot", "unable", "fail", "failed", "failing", "help me", "please help",
      "need help", "struggling", "frustrated", "frustrating", "annoying", "hate", "ruined",
      "disaster", "messed up", "went wrong", "what am i doing wrong", "why won't", "why can't",
      "losing money", "losing customers", "going bankrupt", "can't afford", "running out",
      "desperate">>

MEDIUM_VALUE_KEYWORDS ==
    <<"how do i", "how to", "how can i", "what do i", "why does", "why is", "any advice",
      "any tips", "need advice", "looking for help", "suggestions", "what should i",
      "does anyone know", "how should i", "where do i", "when should i">>

LOW_VALUE_KEYWORDS ==
    <<"help", "problem", "issue", "trouble", "difficulty", "question", "advice", "tips", "wrong",
      "bad", "don't know", "no idea", "confused", "understand", "concern", "worried", "stress",
      "challenge">>

BUSINESS_PROBLEM_KEYWORDS ==
    <<"cash flow", "not selling", "no sales", "no customers", "employees quit", "can't hire",
      "bad reviews", "competitor", "lawsuit", "legal issue", "tax problem", "irs", "slow season",
      "lost client", "customer complaint", "pricing problem", "too expensive", "undercutting",
      "marketing not working", "no leads", "overhead costs">>

SKIP_KEYWORDS ==
    <<"revenue milestone", "just hit", "celebrating", "success story", "finally made it",
      "proud to announce", "check out my business", "shameless plug">>

SOFT_META_THREAD_KEYWORDS ==
    <<"share your", "promotion thread", "community thread", "networking thread">>

\* \b(i|my|we|our)\b
first_person_context_pattern == Word(<<"i", "my", "we", "our">>)

\* What the loop of discover_threads reads from the text of a post: whether
\* a skip keyword and a hard-skip keyword occur, and the relevance score.
PostReading(post_title, post_selftext) ==
    LET selftext == strip(post_selftext)
        searchable_text == lower(post_title \o " " \o selftext)
    IN  [skip |-> contained(SKIP_KEYWORDS, searchable_text) > 0,
         hard_skip |-> contained(HARD_SKIP_THREAD_KEYWORDS, searchable_text) > 0,
         score |-> 10 * contained(HIGH_VALUE_KEYWORDS, searchable_text)
                   + 5 * contained(MEDIUM_VALUE_KEYWORDS, searchable_text)
                   + 3 * contained(LOW_VALUE_KEYWORDS, searchable_text)
                   + 7 * contained(BUSINESS_PROBLEM_KEYWORDS, searchable_text)
                   + (IF Contains(post_title, "?") THEN 2 ELSE 0)
                   + (IF search(first_person_context_pattern, searchable_text) THEN 2 ELSE 0)
                   + (IF Len(selftext) >= 200 THEN 1 ELSE 0)
                   - (IF contained(SOFT_META_THREAD_KEYWORDS, searchable_text) > 0
                      THEN 8 ELSE 0)]

\* The texts of the posts: <<title, selftext>>.
SelftextSentence == "The landlord raised the rent again and the roof still leaks. "
PostTexts ==
    <<(<<"Struggling with cash flow, any advice?", "I cannot pay my suppliers this month.">>),
      (<<"Just hit a revenue milestone", "We are celebrating.">>),
      (<<"Weekly thread: promote your business", "">>),
      (<<"Shop update from Alabama", "We have a problem with parking.">>),
      (<<"New sign on the door", "">>),
      (<<"Share your wins", "">>),
      (<<"Landlord trouble",
         SelftextSentence \o SelftextSentence \o SelftextSentence \o SelftextSentence>>),
      (<<"Share your question?", "">>),
      (<<"Opening hours?", "">>),
      (<<"Slow season and no leads", "  Any tips?  ">>)>>

PostReadings ==
    [p \in {PostTexts[i] : i \in DOMAIN PostTexts} |-> PostReading(p[1], p[2])]

reading_of(post) == PostReadings[<<post.title, post.selftext>>]

\* discovery_stat skipping every post of relevance 0 or less, whatever its
\* comment count.
discovery_stat_any_comment_count(post, min_comments) ==
    IF post.num_comments < min_comments THEN "skipped_low_comments"
    ELSE IF reading_of(post).skip THEN "skipped_keywords"
    ELSE IF reading_of(post).hard_skip THEN "skipped_meta_threads"
    ELSE IF reading_of(post).score <= 0 THEN "skipped_no_match"
    ELSE "matched"

\* The counter of discovery_stats that the loop increments for a post:
\* "matched" when the post is appended to discovered.
discovery_stat(post, min_comments) ==
    IF post.num_comments < min_comments THEN "skipped_low_comments"
    ELSE IF reading_of(post).skip THEN "skipped_keywords"
    ELSE IF reading_of(post).hard_skip THEN "skipped_meta_threads"
    ELSE IF reading_of(post).score <= 0 /\ post.num_comments < min_comments * 2
    THEN "skipped_no_match"
    ELSE "matched"

\* The entry appended to discovered (matched_keywords is only printed).
thread_of(post) ==
    [url |-> "https://www.reddit.com" \o post.permalink, title |-> post.title,
     score |-> post.score, num_comments |-> post.num_comments,
     relevance_score |-> reading_of(post).score]

(***************************************************************************)
(* The doubles of the combined score.  Each is below 256 in magnitude and  *)
(* a multiple of 2^-60.  The double x is kept as the pair <<e, d>> with    *)
(* 500 * x * 2^60 = e * 2^60 + d: e is the exact value of the expression   *)
(* in 500ths and d the rounding error, in units of 2^-60 / 500.            *)
(***************************************************************************)
RECURSIVE Pow2Mod500(_)
Pow2Mod500(n) == IF n = 0 THEN 1 ELSE (2 * Pow2Mod500(n - 1)) % 500

\* x >= 2^j, for x >= 0 and j in -8..7.
AtLeastPow2(x, j) ==
    IF j >= 0
    THEN x[1] > 500 * Pow2(j) \/ (x[1] = 500 * Pow2(j) /\ x[2] >= 0)
    ELSE x[1] * Pow2(-j) > 500 \/ (x[1] * Pow2(-j) = 500 /\ x[2] >= 0)

\* The binade of x > 0: the largest j with x >= 2^j; its doubles are the
\* multiples of 2^(j-52).
Binade(x) == CHOOSE j \in -8..7 : AtLeastPow2(x, j) /\ (j = 7 \/ ~AtLeastPow2(x, j + 1))

\* (e * 2^60 + d) mod (500 * 2^(j+8)), for e >= 0.
Residue500(x, j) ==
    (Pow2(j + 8) * (((x[1] % 500) * Pow2Mod500(52 - j)) % 500) + x[2]) % (500 * Pow2(j + 8))

\* Round-half-even of an exact value x > 0 to the multiples of 2^(j-52).
NearestInBinade(x, j) ==
    LET ulp == 500 * Pow2(j + 8)
        r == Residue500(x, j)
        odd == Residue500(x, j + 1) >= ulp
    IN  IF 2 * r < ulp \/ (2 * r = ulp /\ ~odd)
        THEN <<x[1], x[2] - r>>
        ELSE <<x[1], x[2] - r + ulp>>

\* The double nearest to the exact value x.
Nearest(x) ==
    IF x = <<0, 0>> THEN x
    ELSE IF FNegative(x) THEN FNeg(NearestInBinade(FNeg(x), Binade(FNeg(x))))
    ELSE NearestInBinade(x, Binade(x))

\* a / b for ints a >= 0 and b that divides 500, and x + y.
Quotient(a, b) == Nearest(<<a * (500 \div b), 0>>)
Sum(x, y) == Nearest(<<x[1] + y[1], x[2] + y[2]>>)

\* relevance_score * 2.5 + min(max(score, 0), 3000) / 250 + min(num_comments, 400) / 20:
\* the double that the source computes, the two sums from left to right.
combined_score(thread) ==
    Sum(Sum(Nearest(<<thread.relevance_score * 1250, 0>>),
            Quotient(Min(Max(thread.score, 0), 3000), 250)),
        Quotient(Min(thread.num_comments, 400), 20))

\* The combined score as the formula gives it over the reals, in 500ths.
exact_combined_score(thread) ==
    thread.relevance_score * 1250 + Min(Max(thread.score, 0), 3000) * 2
    + Min(thread.num_comments, 400) * 25

\* discovered.sort(key=lambda x: x["combined_score"], reverse=True): highest
\* first, equal scores in the order they had.  ahead[i] counts the threads
\* that the sort puts before thread i.
sort_by_combined_score(threads) ==
    LET ahead == [i \in DOMAIN threads |->
                    Cardinality({j \in DOMAIN threads :
                        \/ FLess(threads[i].combined_score, threads[j].combined_score)
                        \/ /\ threads[j].combined_score = threads[i].combined_score
                           /\ j < i})]
    IN  [place \in DOMAIN threads |-> threads[CHOOSE i \in DOMAIN threads : ahead[i] = place - 1]]

(***************************************************************************)
(* The posts retrieved.  The catalogue holds every text of PostTexts with  *)
(* every comment count of CommentCounts; the posts after it are ordinary   *)
(* questions, as many as make the discovery output 57 to 61 threads long,  *)
(* two pairs of them level in combined score.                              *)
(***************************************************************************)
MinFillers == 35
MaxFillers == 39

CommentCounts == <<9, 10, 19, 20, 450>>
Upvotes == <<-5, 0, 120, 5000>>
Catalogue == Len(PostTexts) * Len(CommentCounts)
\* the texts of the posts after the catalogue
Ordinary == <<1, 7, 9, 10>>

DecimalDigit == <<"0", "1", "2", "3", "4", "5", "6", "7", "8", "9">>
RECURSIVE Decimal(_)
Decimal(n) == IF n < 10 THEN DecimalDigit[n + 1]
              ELSE Decimal(n \div 10) \o DecimalDigit[(n % 10) + 1]

Permalink(i) == "/r/smallbusiness/comments/" \o Decimal(i) \o "/"

\* <<score, num_comments>> of the posts with the same text that have the same
\* combined score over the reals: 52 and 56 with 0.1 + 0.55 and 0.0 + 0.65,
\* 53 and 57 with the same numbers.
Level == (52 :> <<25, 11>>) @@ (56 :> <<0, 13>>) @@ (53 :> <<100, 12>>) @@ (57 :> <<100, 12>>)

Post(i) ==
    LET text == IF i <= Catalogue THEN PostTexts[((i - 1) % Len(PostTexts)) + 1]
                ELSE PostTexts[Ordinary[(i % Len(Ordinary)) + 1]]
    IN  [title |-> text[1], selftext |-> text[2],
         num_comments |-> IF i <= Catalogue
                          THEN CommentCounts[((i - 1) \div Len(PostTexts)) + 1]
                          ELSE IF i \in DOMAIN Level THEN Level[i][2]
                          ELSE 10 + (i % 13),
         score |-> IF i <= Catalogue THEN Upvotes[(i % Len(Upvotes)) + 1]
                   ELSE IF i \in DOMAIN Level THEN Level[i][1]
                   ELSE (i * 37) % 400,
         permalink |-> Permalink(i)]

Posts(n) == [i \in 1..(Catalogue + n) |-> Post(i)]

Reverse(s) == [i \in DOMAIN s |-> s[Len(s) + 1 - i]]

PostLists == UNION {{Posts(n), Reverse(Posts(n))} : n \in MinFillers..MaxFillers}

\* The URLs that the rejected-threads file of an earlier run may hold: of a
\* thread with a high, a middling and a negative combined score, of a
\* thread with few comments, and of a thread that is no longer listed.
RejectedPool ==
    {"https://www.reddit.com" \o Permalink(41), "https://www.reddit.com" \o Permalink(60),
     "https://www.reddit.com" \o Permalink(36), "https://www.reddit.com" \o Permalink(77),
     "https://www.reddit.com" \o Permalink(1), "https://www.reddit.com/r/smallbusiness/comments/old/"}

no_stats ==
    [total_checked |-> 0, matched |-> 0, skipped_low_comments |-> 0, skipped_keywords |-> 0,
     skipped_meta_threads |-> 0, skipped_no_match |-> 0]

\* returned.at is the position in the code: in the loop of discover_threads
\* ("posts"), after its return ("filter", "recover") and after the
\* assignment of THREAD_URLS ("assembled").
InitDiscovery ==
    /\ Idle
    /\ call \in [all_posts : PostLists, rejected_threads : SUBSET RejectedPool,
                 min_comments : {MIN_COMMENTS_PER_THREAD}]
    /\ returned = [at |-> "posts", discovery_stats |-> no_stats, discovered |-> <<>>,
                   discovered_all |-> <<>>, THREAD_URLS |-> <<>>]

post == call.all_posts[returned.discovery_stats.total_checked + 1]

InLoop ==
    /\ returned.at = "posts"
    /\ returned.discovery_stats.total_checked < Len(call.all_posts)

\* "for post in all_posts" for a post that one of the four tests skips.
SkipPost ==
    /\ InLoop
    /\ discovery_stat(post, call.min_comments) # "matched"
    /\ returned' = [returned EXCEPT
                      !.discovery_stats.total_checked = @ + 1,
                      !.discovery_stats[discovery_stat(post, call.min_comments)] = @ + 1]
    /\ UNCHANGED <<call, program>>

\* "for post in all_posts" for a post that is appended to discovered.
MatchPost ==
    /\ InLoop
    /\ discovery_stat(post, call.min_comments) = "matched"
    /\ returned' = [returned EXCEPT
                      !.discovery_stats.total_checked = @ + 1,
                      !.discovery_stats.matched = @ + 1,
                      !.discovered = Append(@, thread_of(post))]
    /\ UNCHANGED <<call, program>>

\* The loop is over: the combined scores, the sort and the return.
ReturnDiscovered ==
    /\ returned.at = "posts"
    /\ returned.discovery_stats.total_checked = Len(call.all_posts)
    /\ returned' = [returned EXCEPT
                      !.at = "filter",
                      !.discovered = sort_by_combined_score(
                          [i \in DOMAIN @ |->
                              [combined_score |-> combined_score(@[i])] @@ @[i]])]
    /\ UNCHANGED <<call, program>>

is_rejected(item) == item.url \in call.rejected_threads

\* discovered_all = list(discovered), and the filter on rejected_threads.
FilterRejected ==
    /\ returned.at = "filter"
    /\ returned' = [returned EXCEPT
                      !.at = "recover",
                      !.discovered_all = returned.discovered,
                      !.discovered = SelectSeq(@, LAMBDA item : ~is_rejected(item))]
    /\ UNCHANGED <<call, program>>

\* recovered without its slice: every rejected thread of the output.
recovered_without_limit(needed) == SelectSeq(returned.discovered_all, is_rejected)

\* recovered = [...][:needed]
recovered(needed) ==
    LET rejected == SelectSeq(returned.discovered_all, is_rejected)
    IN  SubSeq(rejected, 1, Min(needed, Len(rejected)))

\* The recovery of rejected threads, and THREAD_URLS.
RecoverRejected ==
    /\ returned.at = "recover"
    /\ LET needed == MIN_DISCOVERED_THREADS_AFTER_FILTER - Len(returned.discovered)
           discovered == IF Len(returned.discovered) < MIN_DISCOVERED_THREADS_AFTER_FILTER
                         THEN returned.discovered \o recovered(needed)
                         ELSE returned.discovered
       IN  returned' = [returned EXCEPT
                          !.at = "assembled",
                          !.discovered = discovered,
                          !.THREAD_URLS = [i \in DOMAIN discovered |-> discovered[i].url]]
    /\ UNCHANGED <<call, program>>

NextDiscovery ==
    \/ SkipPost
    \/ MatchPost
    \/ ReturnDiscovered
    \/ FilterRejected
    \/ RecoverRejected

SpecDiscovery == InitDiscovery /\ [][NextDiscovery]_vars

\* The post is one that the claim calls excluded: too few comments, a skip
\* keyword or a hard-skip keyword in its title and body, or a relevance of 0
\* or less with fewer comments than twice the minimum.
Excluded(p) ==
    LET searchable_text == lower(p.title \o " " \o strip(p.selftext))
    IN  \/ p.num_comments < MIN_COMMENTS_PER_THREAD
        \/ \E i \in DOMAIN SKIP_KEYWORDS : Contains(searchable_text, SKIP_KEYWORDS[i])
        \/ \E i \in DOMAIN HARD_SKIP_THREAD_KEYWORDS :
              Contains(searchable_text, HARD_SKIP_THREAD_KEYWORDS[i])
        \/ reading_of(p).score <= 0 /\ p.num_comments < 2 * MIN_COMMENTS_PER_THREAD

\* The entries of discovered made from the post.
EntriesOf(p) ==
    {i \in DOMAIN returned.discovered :
        returned.discovered[i].url = "https://www.reddit.com" \o p.permalink}

\* The post is in the discovery output once, with its relevance score.
KeptWithScore(p) ==
    /\ Cardinality(EntriesOf(p)) = 1
    /\ \A i \in EntriesOf(p) :
          /\ returned.discovered[i].relevance_score = reading_of(p).score
          /\ returned.discovered[i].num_comments = p.num_comments

\* C20: a post is left out of the discovery output exactly when it has fewer
\* comments than the minimum, or its title and body hold a skip keyword or
\* a hard-skip keyword, or its relevance is 0 or less and it has fewer
\* comments than twice the minimum; every other post is in the output with
\* its relevance score, also one of relevance 0 or less that has twice the
\* minimum of comments or more.  In the loop this is said of the post just
\* checked, after the return of every post.
C20_ExcludedExactlyWhen ==
    /\ (returned.at = "posts" /\ returned.discovery_stats.total_checked > 0) =>
          LET p == call.all_posts[returned.discovery_stats.total_checked]
          IN  IF Excluded(p) THEN EntriesOf(p) = {} ELSE KeptWithScore(p)
    /\ returned.at = "filter" =>
          \A j \in DOMAIN call.all_posts :
              LET p == call.all_posts[j]
              IN  IF Excluded(p) THEN EntriesOf(p) = {} ELSE KeptWithScore(p)

\* C20: discover_threads has returned; it has skipped posts for each of the
\* four reasons, and its output holds a thread of relevance 0 or less with
\* exactly twice the minimum of comments.
C20_Witness ==
    /\ returned.at = "filter"
    /\ returned.discovery_stats.skipped_low_comments > 0
    /\ returned.discovery_stats.skipped_keywords > 0
    /\ returned.discovery_stats.skipped_meta_threads > 0
    /\ returned.discovery_stats.skipped_no_match > 0
    /\ \E i \in DOMAIN returned.discovered :
          /\ returned.discovered[i].relevance_score <= 0
          /\ returned.discovered[i].num_comments = 2 * MIN_COMMENTS_PER_THREAD

\* The places of the discovery output whose thread is not in the rejected
\* set, those whose thread is and is in THREAD_URLS, and those whose thread
\* is and is not in THREAD_URLS.
Survivors == {i \in DOMAIN returned.discovered_all : ~is_rejected(returned.discovered_all[i])}
InThreadUrls(u) == \E n \in DOMAIN returned.THREAD_URLS : returned.THREAD_URLS[n] = u
Reinstated ==
    {i \in DOMAIN returned.discovered_all :
        is_rejected(returned.discovered_all[i]) /\ InThreadUrls(returned.discovered_all[i].url)}
LeftOut ==
    {i \in DOMAIN returned.discovered_all :
        is_rejected(returned.discovered_all[i]) /\ ~InThreadUrls(returned.discovered_all[i].url)}

\* C11: once THREAD_URLS is assembled from the discovery output and the
\* loaded rejected set: with 60 threads or more outside the rejected set no
\* rejected thread is among the URLs; with fewer, at most 60 less their
\* number are, and none of the rejected threads left out has a higher
\* combined score than one that is in; a URL of the rejected set is among
\* the URLs to process only as one of these reinstated threads, once.
C11_BoundedRecoveryOfRejected ==
    returned.at = "assembled" =>
        LET all == returned.discovered_all
            needed == MIN_DISCOVERED_THREADS_AFTER_FILTER - Cardinality(Survivors)
        IN  /\ Cardinality(Survivors) >= MIN_DISCOVERED_THREADS_AFTER_FILTER => Reinstated = {}
            /\ Cardinality(Survivors) < MIN_DISCOVERED_THREADS_AFTER_FILTER =>
                  /\ Cardinality(Reinstated) <= needed
                  /\ \A i \in Reinstated : \A j \in LeftOut :
                        ~FLess(all[i].combined_score, all[j].combined_score)
            /\ Cardinality({n \in DOMAIN returned.THREAD_URLS :
                               returned.THREAD_URLS[n] \in call.rejected_threads})
                  = Cardinality(Reinstated)
            /\ \A n \in DOMAIN returned.THREAD_URLS :
                  \E i \in DOMAIN all : all[i].url = returned.THREAD_URLS[n]

\* C11: THREAD_URLS is assembled; fewer than 60 threads were outside the
\* rejected set, some rejected threads were reinstated and some were not.
C11_Witness ==
    /\ returned.at = "assembled"
    /\ Cardinality(Survivors) < MIN_DISCOVERED_THREADS_AFTER_FILTER
    /\ Reinstated # {}
    /\ LeftOut # {}

\* THREAD_URLS is assembled and enough threads were outside the rejected
\* set, which holds threads of the discovery output.
EnoughSurvivors ==
    /\ returned.at = "assembled"
    /\ Cardinality(Survivors) >= MIN_DISCOVERED_THREADS_AFTER_FILTER
    /\ LeftOut # {}

\* existing_texts[-50:]
Recent(existing_texts) ==
    SubSeq(existing_texts, Max(1, Len(existing_texts) - DEDUP_WINDOW + 1), Len(existing_texts))

\* The texts of the accepted records, in the order of their acceptance.
AcceptedTexts == [i \in DOMAIN rows |-> rows[i].Full_Text]

\* C12 as stated: the window that the near-duplicate check reads, the last
\* 50 of seen_texts, holds the 50 most recently accepted texts in the order
\* of their acceptance, and a text is in seen_texts only when it was accepted.
C12_WindowHoldsRecentAccepted ==
    /\ Recent(seen_texts) = Recent(AcceptedTexts)
    /\ \A i \in DOMAIN seen_texts : \E j \in DOMAIN rows : rows[j].Full_Text = seen_texts[i]

\* The place in all_posts of the post that an entry of discovered was made
\* from: its discovery order.
DiscoveryPlace(item) ==
    CHOOSE n \in DOMAIN call.all_posts :
        "https://www.reddit.com" \o call.all_posts[n].permalink = item.url

\* discover_threads has returned and its output is not filtered yet.
Returned == returned.at = "filter"

\* C21 as stated: the discovery output is in descending order of
\* relevance x 2.5 + clamp(upvotes, 0, 3000) / 250 + clamp(comments, 0, 400) / 20,
\* and threads for which this is equal are in their discovery order.
C21_SortedStableByFormula ==
    Returned =>
        \A i, j \in DOMAIN returned.discovered :
            i < j =>
                /\ exact_combined_score(returned.discovered[i])
                       >= exact_combined_score(returned.discovered[j])
                /\ exact_combined_score(returned.discovered[i])
                       = exact_combined_score(returned.discovered[j])
                   => DiscoveryPlace(returned.discovered[i]) < DiscoveryPlace(returned.discovered[j])

\* The output is in descending order of the formula over the reals.
DescendingByFormula ==
    Returned =>
        \A i, j \in DOMAIN returned.discovered :
            i < j => exact_combined_score(returned.discovered[i])
                         >= exact_combined_score(returned.discovered[j])

\* Threads with the same double as combined score are in their discovery
\* order.
StableOnEqualDoubles ==
    Returned =>
        \A i, j \in DOMAIN returned.discovered :
            (i < j /\ returned.discovered[i].combined_score = returned.discovered[j].combined_score)
                => DiscoveryPlace(returned.discovered[i]) < DiscoveryPlace(returned.discovered[j])

\* Two threads level over the reals are in the output with different
\* doubles, against their discovery order.
LevelThreadsReordered ==
    /\ Returned
    /\ \E i, j \in DOMAIN returned.discovered :
          /\ i < j
          /\ exact_combined_score(returned.discovered[i])
                 = exact_combined_score(returned.discovered[j])
          /\ returned.discovered[i].combined_score # returned.discovered[j].combined_score
          /\ DiscoveryPlace(returned.discovered[i]) > DiscoveryPlace(returned.discovered[j])

\* The reasons of the six rules of the hard-negative filter, in the order of
\* the claim, and the rules that match the comment, body and title of the
\* call.
HardNegativeReasons ==
    <<"Meta/promo thread", "Moderator/admin comment", "AutoModerator comment",
      "Stickied moderator comment", "Moderator notice", "Service pitch/self-promo">>

MatchingRules ==
    {n \in 1..6 :
        CASE n = 1 -> \E i \in DOMAIN HARD_SKIP_THREAD_KEYWORDS :
                          Contains(lower(call.thread_title), HARD_SKIP_THREAD_KEYWORDS[i])
          [] n = 2 -> lower(call.comment.distinguished) \in {"moderator", "admin"}
          [] n = 3 -> lower(call.comment.author) = "automoderator"
          [] n = 4 -> call.comment.stickied
          [] n = 5 -> Readings[call.text].hard_negative_moderator_notice
          [] OTHER -> Readings[call.text].service_pitch}

\* C22: the verdict of the hard-negative filter is (true, reason of the
\* first rule that matches) in the order hard-skip title, moderator or admin
\* mark, moderation-bot author, sticky flag, moderator-notice pattern,
\* service-pitch pattern; it is (false, "") exactly when no rule matches;
\* evaluating the same input again gives the same verdict.
C22_FirstMatchingRuleWins ==
    returned.hard_negative # <<>> =>
        /\ returned.hard_negative[1] =
              IF MatchingRules = {} THEN <<FALSE, "">>
              ELSE <<TRUE, HardNegativeReasons[CHOOSE n \in MatchingRules :
                                                   \A m \in MatchingRules : n <= m]>>
        /\ returned.hard_negative[1] =
              is_hard_negative_comment(call.comment, Readings[call.text], call.thread_title)

\* C22: the filter has returned for a comment that four rules match, the
\* first of them the moderator mark.
C22_Witness ==
    /\ returned.hard_negative # <<>>
    /\ MatchingRules = {2, 3, 4, 5}
    /\ returned.hard_negative[1] = <<TRUE, "Moderator/admin comment">>

\* The filter has returned for a comment whose first matching rule is n.
FirstRuleIs(n) ==
    /\ returned.hard_negative # <<>>
    /\ n \in MatchingRules
    /\ \A m \in MatchingRules : n <= m
    /\ Cardinality(MatchingRules) >= (IF n = 6 THEN 1 ELSE 2)

\* The number of accepted records and of rejected records.
Records == Len(rows) + Len(rejected_comments)

\* C23 as stated: every examination of a ranked candidate adds exactly one
\* record, to the accepted records or to the rejected records, also when
\* the near-duplicate check turns the candidate down.
C23_ExaminedCandidateRecorded ==
    [][Examining => Len(rows') + Len(rejected_comments') = Records + 1]_vars

\* Every examination of a ranked candidate that the near-duplicate check
\* lets through adds exactly one record, and a rejected record holds the id,
\* the thread title, the reason, the score and the preview of the candidate.
NotSimilarCandidateRecorded ==
    [][(Examining /\ ~is_too_similar(candidate.body.txt, seen_texts)) =>
          /\ Len(rows') + Len(rejected_comments') = Records + 1
          /\ Len(rejected_comments') > Len(rejected_comments) =>
                /\ rows' = rows
                /\ rejected_comments'[Len(rejected_comments')] =
                      [comment_id |-> candidate.cid, thread |-> title,
                       reason |-> verdict.reason, score |-> verdict.score,
                       preview |-> candidate.body.txt]]_vars

\* A candidate turned down by the near-duplicate check leaves no record.
SimilarCandidateLeavesNoRecord ==
    [][(Examining /\ is_too_similar(candidate.body.txt, seen_texts)) =>
          (rows' = rows /\ rejected_comments' = rejected_comments)]_vars

\* The candidates are in non-increasing order of pre-rank score, those with
\* the same score in non-increasing order of upvote score, and those with
\* the same two in non-increasing order of body length: each candidate
\* against the next one.
InRankOrder(cands) ==
    \A i \in 1..(Len(cands) - 1) :
        \/ cands[i].pre_rank_score > cands[i + 1].pre_rank_score
        \/ /\ cands[i].pre_rank_score = cands[i + 1].pre_rank_score
           /\ \/ cands[i].reddit_score > cands[i + 1].reddit_score
              \/ /\ cands[i].reddit_score = cands[i + 1].reddit_score
                 /\ cands[i].body.chars >= cands[i + 1].body.chars

\* While the candidates of a thread are examined: every comment of the
\* thread has been through the filters and the scorer, the candidates are in
\* rank order, and the one examined is within the scan limit.
RankedBeforeClassified ==
    pc = "classify" =>
        /\ pos > Len(comments)
        /\ InRankOrder(ranked_candidates)
        /\ k <= RANKED_COMMENT_SCAN_LIMIT
        /\ k <= Len(ranked_candidates)

\* C24: in a thread no candidate is strictly classified before every comment
\* of the thread has been filtered and pre-rank scored; the candidates are
\* then visited one after the other in non-increasing pre-rank score, ties
\* by higher upvote score and then by longer body, at most 220 of them; and
\* the strict classifier is called only on the candidate being visited, after
\* the near-duplicate check has let it through.
C24_RankThenClassifyInOrder ==
    [][/\ RankedBeforeClassified
       /\ RankedBeforeClassified'
       /\ (pc = "classify" /\ pc' = "classify") =>
             (k' = k + 1 /\ ranked_candidates' = ranked_candidates)
       /\ (pc # "classify" /\ pc' = "classify") => (pc = "filter" /\ k' = 1)
       /\ classified' # classified =>
             /\ pc = "classify"
             /\ ~is_too_similar(candidate.body.txt, seen_texts)
             /\ classified' = [classified EXCEPT ![candidate.cid] = @ + 1]]_vars

\* C24: the candidates of a thread have been examined up to the scan limit
\* and one ranked candidate is left unvisited; among the ranked candidates
\* are two with the same pre-rank score and different upvote scores, and two
\* with the same pre-rank and upvote scores and bodies of different lengths.
C24_Witness ==
    /\ pc = "report"
    /\ Len(ranked_candidates) = RANKED_COMMENT_SCAN_LIMIT + 1
    /\ k = RANKED_COMMENT_SCAN_LIMIT + 1
    /\ thread_rejected = RANKED_COMMENT_SCAN_LIMIT
    /\ classified[ranked_candidates[RANKED_COMMENT_SCAN_LIMIT + 1].cid] = 0
    /\ \E i \in DOMAIN ranked_candidates :
          /\ i < Len(ranked_candidates)
          /\ ranked_candidates[i].pre_rank_score = ranked_candidates[i + 1].pre_rank_score
          /\ ranked_candidates[i].reddit_score > ranked_candidates[i + 1].reddit_score
    /\ \E i \in DOMAIN ranked_candidates :
          /\ i < Len(ranked_candidates)
          /\ ranked_candidates[i].pre_rank_score = ranked_candidates[i + 1].pre_rank_score
          /\ ranked_candidates[i].reddit_score = ranked_candidates[i + 1].reddit_score
          /\ ranked_candidates[i].body.chars > ranked_candidates[i + 1].body.chars

\* Candidates with different pre-rank scores are being examined, after a
\* candidate of the thread was turned down by the near-duplicate check.
MixedScoresExamined ==
    /\ pc = "classify"
    /\ \E i, j \in DOMAIN ranked_candidates :
          ranked_candidates[i].pre_rank_score > ranked_candidates[j].pre_rank_score

\* C25 as stated: of two threads of the discovery output, the one with the
\* strictly higher relevance score is placed before the other, whatever
\* their upvote and comment counts.
C25_HigherRelevanceFirst ==
    Returned =>
        \A i, j \in DOMAIN returned.discovered :
            returned.discovered[i].relevance_score > returned.discovered[j].relevance_score
                => i < j

\* A thread is placed before another of lower relevance when the relevance
\* scores differ by 13 or more: upvotes and comments add at most 12 + 20 to
\* the combined score, and a relevance point adds 2.5.
MuchHigherRelevanceFirst ==
    Returned =>
        \A i, j \in DOMAIN returned.discovered :
            returned.discovered[i].relevance_score >= returned.discovered[j].relevance_score + 13
                => i < j

\* The output holds a thread placed before one of relevance higher by 2,
\* and two threads whose relevance scores differ by 13 or more.
LowerRelevanceAhead ==
    /\ Returned
    /\ \E i, j \in DOMAIN returned.discovered :
          /\ i < j
          /\ returned.discovered[j].relevance_score = returned.discovered[i].relevance_score + 2
    /\ \E i, j \in DOMAIN returned.discovered :
          returned.discovered[i].relevance_score >= returned.discovered[j].relevance_score + 13

(***************************************************************************)
(* The run as the interpreter executes it: a step that can be taken is     *)
(* taken.  The program is one sequential thread, every wait in it is a     *)
(* bounded sleep and every fetch carries a timeout, so the only way to     *)
(* stop is to have no step left.                                           *)
(***************************************************************************)
SpecFair == Init /\ [][Next]_vars /\ WF_vars(Next)

\* The collection loop has been left: the analysis is pending or done.
LoopEnded == pc \in {"analysis", "done"}
\* The threads the loop never started.
Unvisited == {n \in DOMAIN THREAD_URLS : n > Len(outcome)}
\* A thread is left unvisited only by the break taken after a thread's
\* report once the collection target is reached.
UnvisitedOnlyAfterTarget ==
    Unvisited # {} =>
        /\ Len(rows) >= TARGET_COMMENTS
        /\ outcome # <<>>
        /\ outcome[Len(outcome)] = "evaluated"

FetchFailedAndEvaluated ==
    /\ pc = "done"
    /\ Unvisited = {}
    /\ Len(rows) < TARGET_COMMENTS
    /\ \E n \in DOMAIN outcome : outcome[n] = "fetch_failed"
    /\ \E n \in DOMAIN outcome : outcome[n] = "evaluated"

\* The sum of the per-category counters.
RECURSIVE CountOver(_, _)
CountOver(counts, cats) ==
    IF cats = {} THEN 0
    ELSE LET cat == CHOOSE c \in cats : TRUE
         IN  counts[cat] + CountOver(counts, cats \ {cat})
CategoryTotal == CountOver(pain_category_counts, DOMAIN pain_category_counts)

\* C27 as stated: in every state between two comment evaluations the number
\* of accepted records equals the number of texts in the dedup history and
\* the sum of the per-category counters, and the id-seen set is the set of
\* the ids of the accepted records; a step that rejects a candidate or skips
\* it as a near-duplicate changes none of the four.
C27_AcceptanceStateConsistent ==
    /\ [](/\ Len(rows) = Len(seen_texts)
          /\ Len(rows) = CategoryTotal
          /\ seen_ids = RowIds)
    /\ [][(SkipSimilar \/ RejectCandidate) => UNCHANGED accepted]_vars

\* What holds in every state: the dedup history and the counters agree with
\* each other, neither is ahead of the accepted records, every id in the
\* id-seen set is the id of an accepted record, and a step that accepts
\* nothing changes none of the four.
RegisteredConsistent ==
    /\ [](/\ Len(seen_texts) = CategoryTotal
          /\ Len(seen_texts) <= Len(rows)
          /\ Cardinality(seen_ids) <= Len(seen_texts)
          /\ seen_ids \subseteq RowIds)
    /\ [][(Len(rows') = Len(rows)) => UNCHANGED accepted]_vars

\* An accepted record whose write raised: it is in rows, and its text, id
\* and category were not registered.
AcceptedRecordNotRegistered ==
    /\ pc = "done"
    /\ Len(rows) > Len(seen_texts)
    /\ RowIds \ seen_ids # {}

\* Candidates were rejected and skipped as near-duplicates after an
\* acceptance, and the four agree.
ConsistentAfterRejections ==
    /\ pc = "done"
    /\ Len(rows) > 0
    /\ Len(rows) = Len(seen_texts)
    /\ Len(rows) = CategoryTotal
    /\ seen_ids = RowIds
    /\ Len(rejected_comments) > 0

\* The urls of the threads whose processing was started in this run.
AttemptedUrls == {THREAD_URLS[n] : n \in 1..Len(outcome)}
\* The urls that this run added to the rejected-thread set.
NewlyRejected == rejected_threads \ loaded_rejected

\* C28: the rejected-thread set changes only after the collection loop, and
\* every url added to it is the url of a thread whose processing was
\* attempted in this run; the url of a thread that was never reached is not
\* added unless an attempted thread has the same url.
C28_OnlyAttemptedThreadsRejected ==
    [][/\ rejected_threads' # rejected_threads => LoopEnded
       /\ rejected_threads' \ rejected_threads \subseteq AttemptedUrls
       /\ \A n \in Unvisited :
             THREAD_URLS[n] \notin AttemptedUrls =>
                 THREAD_URLS[n] \notin rejected_threads' \ rejected_threads]_vars

\* C28 witness: the run is over, the target was reached before the last
\* thread, whose url no attempted thread has; the url of an attempted thread
\* was added to the rejected-thread set and the url of the unvisited one was
\* not.
C28_Witness ==
    /\ pc = "done"
    /\ NewlyRejected # {}
    /\ NewlyRejected \subseteq AttemptedUrls
    /\ \E n \in Unvisited : THREAD_URLS[n] \notin AttemptedUrls \cup rejected_threads

====
